---- MODULE Spec2Model ----
(***************************************************************************)
(* Model of the ntfy.desktop background delivery engine:                   *)
(*   src/src-tauri/src/ntfy.rs          NtfyClient, start_polling          *)
(*   src/src-tauri/src/config.rs        AppConfig                          *)
(*   src/src-tauri/src/notifications.rs NotificationManager                *)
(*   src/src-tauri/src/main.rs          save_config, show_notification     *)
(*                                                                         *)
(* Strings that the code inspects character by character (URLs, topic      *)
(* lists) are sequences of one-character strings; strings that are only    *)
(* compared or tested for emptiness are TLA+ strings.  An Option<T> is a   *)
(* sequence of length at most one: None == << >>, Some(x) == <<x>>.        *)
(***************************************************************************)
EXTENDS Integers, Sequences, FiniteSets, TLC

\* ------------------------------------------------------------------ bounds
\* Number of start_polling loops sharing one is_polling flag in SpecMulti.
NLoops == 2
\* Longest NDJSON body (in lines) a poll response carries.
MaxLines == 2
\* Largest number of characters of a topic string.
MaxChars == 5

\* ------------------------------------------------------- program constants
CLEANUP_INTERVAL == 3600
GUARD_RETRY_SECS == 1
EMPTY_TOPICS_SECS == 5
MIN_POLL_RATE == 5
MAX_POLL_RATE == 3600
DEFAULT_PRIORITY == 3
ICON_TTL_SECS == 604800

\* ----------------------------------------------------------------- options
None == << >>
Some(x) == <<x>>
IsSome(o) == Len(o) = 1
Unwrap(o) == o[1]
UnwrapOr(o, d) == IF IsSome(o) THEN o[1] ELSE d

Min(a, b) == IF a < b THEN a ELSE b
Max(a, b) == IF a > b THEN a ELSE b

\* ----------------------------------------------------------------- strings
\* str::ends_with
EndsWith(s, pat) ==
    /\ Len(pat) <= Len(s)
    /\ SubSeq(s, Len(s) - Len(pat) + 1, Len(s)) = pat

\* str::trim_end_matches: removes the pattern repeatedly from the end.
RECURSIVE TrimEndMatches(_, _)
TrimEndMatches(s, pat) ==
    IF Len(pat) > 0 /\ EndsWith(s, pat)
    THEN TrimEndMatches(SubSeq(s, 1, Len(s) - Len(pat)), pat)
    ELSE s

\* char::is_whitespace, for the characters of the model.
IsSpace(c) == c \in {" ", "\t", "\n"}

\* str::trim
RECURSIVE TrimStart(_)
TrimStart(s) ==
    IF Len(s) > 0 /\ IsSpace(s[1]) THEN TrimStart(Tail(s)) ELSE s

RECURSIVE TrimEnd(_)
TrimEnd(s) ==
    IF Len(s) > 0 /\ IsSpace(s[Len(s)])
    THEN TrimEnd(SubSeq(s, 1, Len(s) - 1))
    ELSE s

Trim(s) == TrimEnd(TrimStart(s))

\* str::split(','): the segments between commas, empty ones included.
RECURSIVE SplitComma(_, _)
SplitComma(s, cur) ==
    IF Len(s) = 0 THEN <<cur>>
    ELSE IF s[1] = "," THEN <<cur>> \o SplitComma(Tail(s), << >>)
    ELSE SplitComma(Tail(s), Append(cur, s[1]))

\* [String]::join(",")
RECURSIVE JoinComma(_)
JoinComma(list) ==
    IF Len(list) = 0 THEN << >>
    ELSE IF Len(list) = 1 THEN list[1]
    ELSE list[1] \o <<",">> \o JoinComma(Tail(list))

RECURSIVE FilterNonEmpty(_)
FilterNonEmpty(list) ==
    IF Len(list) = 0 THEN << >>
    ELSE IF Len(list[1]) = 0 THEN FilterNonEmpty(Tail(list))
    ELSE <<list[1]>> \o FilterNonEmpty(Tail(list))

\* --------------------------------------------------------------- AppConfig
\* AppConfig::api_base_url
api_base_url(cfg) ==
    TrimEndMatches(TrimEndMatches(cfg.instance_url, <<"/">>), <<"/", "a", "p", "p">>)

\* Mutant of topics_list: the segments are not trimmed.
topics_list_untrimmed(cfg) == FilterNonEmpty(SplitComma(cfg.topics, << >>))

\* AppConfig::topics_list
topics_list(cfg) ==
    LET segs == SplitComma(cfg.topics, << >>)
    IN  FilterNonEmpty([i \in 1..Len(segs) |-> Trim(segs[i])])

\* AppConfig::topics_path
topics_path(cfg) == JoinComma(topics_list(cfg))

\* Mutant of effective_poll_rate: the configured value, unclamped.
effective_poll_rate_raw(cfg) == cfg.poll_rate

\* AppConfig::effective_poll_rate: u64::clamp(5, 3600)
effective_poll_rate(cfg) ==
    IF cfg.poll_rate < MIN_POLL_RATE THEN MIN_POLL_RATE
    ELSE IF cfg.poll_rate > MAX_POLL_RATE THEN MAX_POLL_RATE
    ELSE cfg.poll_rate

\* Mutant of should_persist_notification: UrgentOnly persists everything.
should_persist_notification_all(cfg, is_urgent) ==
    cfg.persistent_notifications_mode # "Off"

\* AppConfig::should_persist_notification
should_persist_notification(cfg, is_urgent) ==
    CASE cfg.persistent_notifications_mode = "Off" -> FALSE
      [] cfg.persistent_notifications_mode = "All" -> TRUE
      [] cfg.persistent_notifications_mode = "UrgentOnly" -> is_urgent

\* Mutant of notification_sound_for: the two sounds are exchanged.
notification_sound_for_swapped(cfg, is_urgent) ==
    IF is_urgent THEN cfg.notification_sound ELSE cfg.urgent_notification_sound

\* AppConfig::notification_sound_for
notification_sound_for(cfg, is_urgent) ==
    IF is_urgent THEN cfg.urgent_notification_sound ELSE cfg.notification_sound

\* #[serde(rename_all = "snake_case")] of the two enums.
SnakeCase(variant) ==
    CASE variant = "Off" -> "off"
      [] variant = "All" -> "all"
      [] variant = "UrgentOnly" -> "urgent_only"
      [] variant = "Default" -> "default"
      [] variant = "None" -> "none"
      [] variant = "Alert" -> "alert"
      [] variant = "Bell" -> "bell"
      [] variant = "Chime" -> "chime"
      [] variant = "Pop" -> "pop"

\* The variant a serialised name is read back as.
FromSnakeCase(name, variants) == CHOOSE v \in variants : SnakeCase(v) = name

\* The fields of AppConfig the rest of the model does not read, with the
\* values of Default::default().
DefaultOtherFields ==
    [datetime_format |-> "YYYY-MM-DD hh:mm a", persistent_notifications |-> FALSE,
     self_hosted_instance |-> FALSE, start_hidden |-> FALSE,
     quit_on_close |-> FALSE, hotkeys_enabled |-> FALSE, dev_tools |-> FALSE,
     welcome_completed |-> FALSE]

\* AppConfig::default(), the fields the model reads.
DefaultConfig ==
    [instance_url |-> <<"h", "/", "a", "p", "p">>, api_token |-> "",
     auth_user |-> "", auth_pass |-> "", topics |-> <<"a", ",", "b">>,
     poll_rate |-> 60, urgent_priority_threshold |-> 4,
     notification_sound |-> "Default", urgent_notification_sound |-> "Default",
     persistent_notifications_mode |-> "Off"]

\* Mutant of Serialize: the token is written with the other fields.
Serialize_token(cfg, other) ==
    [instance_url |-> cfg.instance_url, api_token |-> cfg.api_token,
     topics |-> cfg.topics,
     poll_rate |-> cfg.poll_rate, datetime_format |-> other.datetime_format,
     persistent_notifications |-> other.persistent_notifications,
     persistent_notifications_mode |-> SnakeCase(cfg.persistent_notifications_mode),
     notification_sound |-> SnakeCase(cfg.notification_sound),
     urgent_notification_sound |-> SnakeCase(cfg.urgent_notification_sound),
     self_hosted_instance |-> other.self_hosted_instance,
     start_hidden |-> other.start_hidden, quit_on_close |-> other.quit_on_close,
     hotkeys_enabled |-> other.hotkeys_enabled, dev_tools |-> other.dev_tools,
     welcome_completed |-> other.welcome_completed,
     urgent_priority_threshold |-> cfg.urgent_priority_threshold]

\* #[derive(Serialize)] of AppConfig: the JSON object, key by key; the three
\* credentials are #[serde(skip_serializing)].
Serialize(cfg, other) ==
    [instance_url |-> cfg.instance_url, topics |-> cfg.topics,
     poll_rate |-> cfg.poll_rate, datetime_format |-> other.datetime_format,
     persistent_notifications |-> other.persistent_notifications,
     persistent_notifications_mode |-> SnakeCase(cfg.persistent_notifications_mode),
     notification_sound |-> SnakeCase(cfg.notification_sound),
     urgent_notification_sound |-> SnakeCase(cfg.urgent_notification_sound),
     self_hosted_instance |-> other.self_hosted_instance,
     start_hidden |-> other.start_hidden, quit_on_close |-> other.quit_on_close,
     hotkeys_enabled |-> other.hotkeys_enabled, dev_tools |-> other.dev_tools,
     welcome_completed |-> other.welcome_completed,
     urgent_priority_threshold |-> cfg.urgent_priority_threshold]

\* A key of the JSON object, or the default the struct-level
\* #[serde(default)] supplies when the key is absent.
FieldOr(json, key, default) ==
    IF key \in DOMAIN json THEN json[key] ELSE default

\* #[derive(Deserialize)] of AppConfig for a JSON object of well-typed values.
Deserialize(json) ==
    LET d == DefaultConfig
        o == DefaultOtherFields
        enum(key, variants, default) ==
            IF key \in DOMAIN json THEN FromSnakeCase(json[key], variants)
            ELSE default
    IN  [config |->
            [instance_url |-> FieldOr(json, "instance_url", d.instance_url),
             api_token |-> FieldOr(json, "api_token", d.api_token),
             auth_user |-> FieldOr(json, "auth_user", d.auth_user),
             auth_pass |-> FieldOr(json, "auth_pass", d.auth_pass),
             topics |-> FieldOr(json, "topics", d.topics),
             poll_rate |-> FieldOr(json, "poll_rate", d.poll_rate),
             urgent_priority_threshold |->
                FieldOr(json, "urgent_priority_threshold", d.urgent_priority_threshold),
             notification_sound |->
                enum("notification_sound",
                     {"Default", "None", "Alert", "Bell", "Chime", "Pop"},
                     d.notification_sound),
             urgent_notification_sound |->
                enum("urgent_notification_sound",
                     {"Default", "None", "Alert", "Bell", "Chime", "Pop"},
                     d.urgent_notification_sound),
             persistent_notifications_mode |->
                enum("persistent_notifications_mode", {"Off", "All", "UrgentOnly"},
                     d.persistent_notifications_mode)],
         other |->
            [k \in DOMAIN o |-> FieldOr(json, k, o[k])]]

\* -------------------------------------------------------------- NtfyClient
\* NtfyClient::new: only a trailing '/' is removed from the base URL.
NtfyClient_new(base_url) ==
    [base_url  |-> TrimEndMatches(base_url, <<"/">>),
     api_token |-> None,
     auth_user |-> None,
     auth_pass |-> None]

\* NtfyClient::with_token
with_token(c, token) ==
    IF token # "" THEN [c EXCEPT !.api_token = Some(token)] ELSE c

\* NtfyClient::with_basic_auth
with_basic_auth(c, user, pass) ==
    IF user # ""
    THEN [c EXCEPT !.auth_user = Some(user), !.auth_pass = Some(pass)]
    ELSE c

\* The client built in main.rs setup before the loop is spawned.
SetupClient(cfg) ==
    LET c0 == NtfyClient_new(api_base_url(cfg))
    IN  IF cfg.api_token # "" THEN with_token(c0, cfg.api_token)
        ELSE IF cfg.auth_user # ""
             THEN with_basic_auth(c0, cfg.auth_user, cfg.auth_pass)
             ELSE c0

\* Mutant of UpdateClientFields: an empty credential leaves the client's
\* field as it was.
UpdateClientFields_keep(c, s) ==
    [base_url  |-> s.base_url,
     api_token |-> IF s.api_token # "" THEN Some(s.api_token) ELSE c.api_token,
     auth_user |-> IF s.auth_user # "" THEN Some(s.auth_user) ELSE c.auth_user,
     auth_pass |-> IF s.auth_pass # "" THEN Some(s.auth_pass) ELSE c.auth_pass]

\* start_polling, "Update client auth and base_url if changed": the four
\* fields are overwritten from the snapshot, an empty string giving None.
UpdateClientFields(c, s) ==
    [base_url  |-> s.base_url,
     api_token |-> IF s.api_token # "" THEN Some(s.api_token) ELSE None,
     auth_user |-> IF s.auth_user # "" THEN Some(s.auth_user) ELSE None,
     auth_pass |-> IF s.auth_pass # "" THEN Some(s.auth_pass) ELSE None]

\* Mutant of apply_auth: the two branches are independent, so that a client
\* with a token and a user gets both headers.
apply_auth_both(c) ==
    (IF IsSome(c.api_token)
     THEN <<[scheme |-> "Bearer", cred |-> Unwrap(c.api_token), pass |-> ""]>>
     ELSE << >>)
    \o (IF IsSome(c.auth_user)
        THEN <<[scheme |-> "Basic", cred |-> Unwrap(c.auth_user),
                pass |-> UnwrapOr(c.auth_pass, "")]>>
        ELSE << >>)

\* NtfyClient::apply_auth: the Authorization headers added to the request
\* builder, in order.  header() and basic_auth() each append one header.
apply_auth(c) ==
    IF IsSome(c.api_token)
    THEN <<[scheme |-> "Bearer", cred |-> Unwrap(c.api_token), pass |-> ""]>>
    ELSE IF IsSome(c.auth_user)
         THEN <<[scheme |-> "Basic", cred |-> Unwrap(c.auth_user),
                 pass |-> UnwrapOr(c.auth_pass, "")]>>
         ELSE << >>

\* The GET request poll_messages builds.
PollRequest(c, topics, poll_rate) ==
    [base  |-> c.base_url,
     path  |-> topics,
     since |-> poll_rate,
     auth  |-> apply_auth(c)]

\* StatusCode::is_success
IsSuccess(status) == status >= 200 /\ status <= 299

\* Mutant of ParseLines: every line that parses is kept, whatever its event.
RECURSIVE ParseLines_all(_)
ParseLines_all(lines) ==
    IF Len(lines) = 0 THEN << >>
    ELSE IF lines[1].kind = "json"
         THEN <<lines[1].msg>> \o ParseLines_all(Tail(lines))
         ELSE ParseLines_all(Tail(lines))

\* Mutant of ParseLines: the first line that does not parse ends the loop.
RECURSIVE ParseLines_abort(_)
ParseLines_abort(lines) ==
    IF Len(lines) = 0 THEN << >>
    ELSE IF lines[1].kind = "blank" THEN ParseLines_abort(Tail(lines))
    ELSE IF lines[1].kind = "bad" THEN << >>
    ELSE IF lines[1].msg.event = Some("message")
         THEN <<lines[1].msg>> \o ParseLines_abort(Tail(lines))
         ELSE ParseLines_abort(Tail(lines))

\* The NDJSON loop of poll_messages: blank lines are skipped, a line that
\* does not parse is logged and skipped, only event == "message" is kept.
RECURSIVE ParseLines(_)
ParseLines(lines) ==
    IF Len(lines) = 0 THEN << >>
    ELSE LET l == lines[1]
             rest == ParseLines(Tail(lines))
         IN  IF l.kind = "blank" THEN rest
             ELSE IF l.kind = "bad" THEN rest
             ELSE IF l.msg.event = Some("message") THEN <<l.msg>> \o rest
             ELSE rest

\* Mutant of poll_messages: 401 and 429 are not told apart from the other
\* error statuses.
poll_messages_generic(resp) ==
    IF resp.kind = "transport"
    THEN [ok |-> FALSE, err |-> "Transport", messages |-> << >>]
    ELSE IF ~IsSuccess(resp.status)
    THEN [ok |-> FALSE, err |-> "Http", messages |-> << >>]
    ELSE IF resp.body_ok = FALSE
    THEN [ok |-> FALSE, err |-> "Transport", messages |-> << >>]
    ELSE [ok |-> TRUE, err |-> "", messages |-> ParseLines(resp.body)]

\* NtfyClient::poll_messages, from the outcome of request.send().
poll_messages(resp) ==
    IF resp.kind = "transport"
    THEN [ok |-> FALSE, err |-> "Transport", messages |-> << >>]
    ELSE IF resp.status = 401
    THEN [ok |-> FALSE, err |-> "Unauthorized", messages |-> << >>]
    ELSE IF resp.status = 429
    THEN [ok |-> FALSE, err |-> "RateLimited", messages |-> << >>]
    ELSE IF ~IsSuccess(resp.status)
    THEN [ok |-> FALSE, err |-> "Http", messages |-> << >>]
    ELSE IF resp.body_ok = FALSE
    THEN [ok |-> FALSE, err |-> "Transport", messages |-> << >>]
    ELSE [ok |-> TRUE, err |-> "", messages |-> ParseLines(resp.body)]

\* The GET request test_connection builds: since=0.
TestRequest(c, topic) ==
    [base  |-> c.base_url,
     path  |-> topic,
     since |-> 0,
     auth  |-> apply_auth(c)]

\* Mutant of test_connection: every status below 400 counts as reachable.
test_connection_lenient(resp) ==
    IF resp.kind = "transport"
    THEN [ok |-> FALSE, value |-> FALSE, err |-> "ConnectionFailed"]
    ELSE IF resp.status < 400
    THEN [ok |-> TRUE, value |-> TRUE, err |-> ""]
    ELSE [ok |-> FALSE, value |-> FALSE, err |-> "Http"]

\* NtfyClient::test_connection, from the outcome of request.send(): Ok(true)
\* for a 2xx status; otherwise an error, which carries the status and the
\* body, or is the read error when the body cannot be read.
test_connection(resp) ==
    IF resp.kind = "transport"
    THEN [ok |-> FALSE, value |-> FALSE, err |-> "ConnectionFailed"]
    ELSE IF IsSuccess(resp.status)
    THEN [ok |-> TRUE, value |-> TRUE, err |-> ""]
    ELSE IF resp.body_ok = FALSE
    THEN [ok |-> FALSE, value |-> FALSE, err |-> "Transport"]
    ELSE [ok |-> FALSE, value |-> FALSE, err |-> "Http"]

\* ----------------------------------------------------- NotificationManager
\* Remote icon URLs that messages carry.
IconUrls == {"u1", "u2"}

\* First 16 hex characters of SHA-256(url): distinct URLs of the model have
\* distinct keys.
UrlHash(url) == IF url = "u1" THEN "hash_u1" ELSE "hash_u2"

CachePath(url) == [dir |-> "cache", name |-> UrlHash(url)]

\* The ordered candidate list of find_icon_path.
LocalCandidates ==
    <<"exe/icons/128x128.png", "exe/icons/32x32.png",
      "exe/../icons/128x128.png", "exe/../icons/32x32.png",
      "dev/icons/128x128.png", "dev/icons/32x32.png">>

\* NotificationManager::find_icon_path: the first candidate that exists.
find_icon_path(local) ==
    LET hits == {i \in 1..Len(LocalCandidates) : LocalCandidates[i] \in local}
    IN  IF hits = {} THEN None
        ELSE LET first == CHOOSE i \in hits : \A j \in hits : i <= j
             IN  Some([dir |-> "local", name |-> LocalCandidates[first]])

\* An icon cache is a function from URL to the age in seconds of its cache
\* file, NoFile when there is none.
NoFile == -1

\* Mutant of CacheFresh: a file of exactly the TTL still counts as fresh.
CacheFresh_inclusive(age) == age <= ICON_TTL_SECS

\* The age test of get_cached_icon_path.
CacheFresh(age) == age < ICON_TTL_SECS

\* "Check if already cached AND not expired": whether the existing file is
\* used.  Unreadable metadata or modification time count as valid.
UseCached(age, fs) ==
    IF fs = "no_meta" \/ fs = "no_mtime" THEN TRUE ELSE CacheFresh(age)

\* NotificationManager::get_cached_icon_path.  o is what the environment
\* does during the call: o.fs in {"ok", "dir_fail", "no_meta", "no_mtime"},
\* o.net in {"ok", "client_fail", "transport", "http_error", "read_fail",
\* "bad_image", "write_fail"}.
get_cached_icon_path(url, cache, o) ==
    LET miss == [path |-> None, cache |-> cache, downloads |-> 0,
                 wrote |-> FALSE, url |-> url, age |-> cache[url], o |-> o]
    IN  IF o.fs = "dir_fail" THEN miss
        ELSE IF cache[url] # NoFile /\ UseCached(cache[url], o.fs)
        THEN [miss EXCEPT !.path = Some(CachePath(url))]
        ELSE IF o.net = "client_fail" THEN miss
        ELSE IF o.net # "ok" THEN [miss EXCEPT !.downloads = 1]
        ELSE [miss EXCEPT !.path = Some(CachePath(url)),
                          !.cache = [cache EXCEPT ![url] = 0],
                          !.downloads = 1,
                          !.wrote = TRUE]

\* Whether the call reaches the download for the environment's o.fs.
ReachesDownload(url, cache, fs) ==
    /\ fs # "dir_fail"
    /\ ~(cache[url] # NoFile /\ UseCached(cache[url], fs))

\* The outcomes the environment can produce for one call.
IconOutcomes(url, cache, nets) ==
    LET fss == {"ok"}
               \cup (IF \A u \in IconUrls : cache[u] = NoFile
                     THEN {"dir_fail"} ELSE {})
               \cup (IF cache[url] # NoFile THEN {"no_meta", "no_mtime"} ELSE {})
    IN  UNION {{[fs |-> f, net |-> n] :
                   n \in (IF ReachesDownload(url, cache, f) THEN nets ELSE {"none"})} :
               f \in fss}

NetOutcomes ==
    {"ok", "client_fail", "transport", "http_error", "read_fail", "bad_image",
     "write_fail"}

\* NotificationManager::get_notification_icon_path
get_notification_icon_path(icon_url, cache, local, o) ==
    IF IsSome(icon_url)
    THEN LET r == get_cached_icon_path(Unwrap(icon_url), cache, o)
         IN  IF IsSome(r.path)
             THEN [icon |-> r.path, cache |-> r.cache, calls |-> <<r>>]
             ELSE [icon |-> find_icon_path(local), cache |-> r.cache, calls |-> <<r>>]
    ELSE [icon |-> find_icon_path(local), cache |-> cache, calls |-> << >>]

\* The sound token both Windows mechanisms use; None is silence.
SoundToken(sound) ==
    CASE sound = "None"    -> None
      [] sound = "Alert"   -> Some("Notification.Default")
      [] sound = "Bell"    -> Some("Notification.IM")
      [] sound = "Chime"   -> Some("Notification.SMS")
      [] sound = "Pop"     -> Some("Notification.Looping.Alarm")
      [] sound = "Default" -> Some("Notification.Default")

\* The urgency-prefixed title.
DisplayTitle(data) == [bell |-> data.urgent, text |-> data.title]

\* The argument list show_notification_windows hands to ntfytoast.exe.
HelperArgs(data, icon) ==
    [t |-> DisplayTitle(data),
     m |-> data.message,
     p |-> icon,
     silent |-> data.sound = "None",
     s |-> SoundToken(data.sound),
     persistent |-> data.persistent,
     d_long |-> data.urgent,
     appID |-> "com.anthony.ntfy.desktop"]

\* The notification show_notification_fallback builds with notify-rust.
LibraryFields(data, icon) ==
    [appname |-> "com.anthony.ntfy.desktop",
     summary |-> DisplayTitle(data),
     body |-> data.message,
     timeout |-> IF data.persistent THEN "Never" ELSE "Default",
     icon |-> icon,
     sound_name |-> SoundToken(data.sound)]

\* Mutant of FallbackResult: the error of show() is returned.
FallbackResult_propagates(show_ok) == IF show_ok THEN "Ok" ELSE "Err"

\* What show_notification_fallback returns for the outcome of show().
FallbackResult(show_ok) == "Ok"

\* NotificationManager::show_notification_fallback
show_notification_fallback(data, cache, local, env, attempts, calls) ==
    LET r == IF IsSome(data.icon_url)
             THEN get_cached_icon_path(Unwrap(data.icon_url), cache, env.icon2)
             ELSE [path |-> find_icon_path(local), cache |-> cache]
        cs == IF IsSome(data.icon_url) THEN Append(calls, r) ELSE calls
    IN  [result   |-> FallbackResult(env.show_ok),
         attempts |-> Append(attempts, "library"),
         shown    |-> env.show_ok,
         icon     |-> r.path,
         helper   |-> None,
         library  |-> Some(LibraryFields(data, r.path)),
         calls    |-> cs,
         cache    |-> r.cache]

\* Mutant of HelperExitOk: only exit code 0 counts as success.
HelperExitOk_zero(code) == code = 0

\* The exit codes of ntfytoast.exe treated as success.
HelperExitOk(code) == code \in 0..5

\* NotificationManager::show_notification_windows
show_notification_windows(data, cache, local, env) ==
    IF ~env.helper.found
    THEN show_notification_fallback(data, cache, local, env, << >>, << >>)
    ELSE LET ic == get_notification_icon_path(data.icon_url, cache, local, env.icon1)
             exit_code == UnwrapOr(env.helper.code, -1)
         IN  IF ~env.helper.exec
             THEN show_notification_fallback(data, ic.cache, local, env,
                                             <<"helper">>, ic.calls)
             ELSE IF ~HelperExitOk(exit_code)
             THEN show_notification_fallback(data, ic.cache, local, env,
                                             <<"helper">>, ic.calls)
             ELSE [result   |-> "Ok",
                   attempts |-> <<"helper">>,
                   shown    |-> TRUE,
                   icon     |-> ic.icon,
                   helper   |-> Some(HelperArgs(data, ic.icon)),
                   library  |-> None,
                   calls    |-> ic.calls,
                   cache    |-> ic.cache]

\* NotificationManager::show_notification_full.  On macOS and Linux the
\* outcome of the osascript / notify-send command is discarded.
show_notification_full(platform, data, cache, local, env) ==
    IF platform = "windows"
    THEN show_notification_windows(data, cache, local, env)
    ELSE [result   |-> "Ok",
          attempts |-> <<IF platform = "macos" THEN "osascript" ELSE "notify-send">>,
          shown    |-> env.show_ok,
          icon     |-> None,
          helper   |-> None,
          library  |-> None,
          calls    |-> << >>,
          cache    |-> cache]

\* The environment's part in one show_notification_full call: whether the
\* helper is found, can be executed and how it exits, what each icon
\* request meets, and whether show() / the command succeeds.
NoIconCall == [fs |-> "ok", net |-> "none"]

DispatchEnvs(platform, data, cache, helpers, nets, shows) ==
    IF platform # "windows"
    THEN {[helper |-> [found |-> FALSE, exec |-> FALSE, code |-> None],
           icon1 |-> NoIconCall, icon2 |-> NoIconCall, show_ok |-> sh] :
          sh \in shows}
    ELSE UNION {
        LET falls == ~h.found \/ ~h.exec \/ ~HelperExitOk(UnwrapOr(h.code, -1))
            o1s == IF h.found /\ IsSome(data.icon_url)
                   THEN IconOutcomes(Unwrap(data.icon_url), cache, nets)
                   ELSE {NoIconCall}
        IN  UNION {
              LET c1 == IF h.found /\ IsSome(data.icon_url)
                        THEN get_cached_icon_path(Unwrap(data.icon_url), cache, o1).cache
                        ELSE cache
                  o2s == IF falls /\ IsSome(data.icon_url)
                         THEN IconOutcomes(Unwrap(data.icon_url), c1, nets)
                         ELSE {NoIconCall}
              IN  {[helper |-> h, icon1 |-> o1, icon2 |-> o2, show_ok |-> sh] :
                   o2 \in o2s, sh \in (IF falls THEN shows ELSE {TRUE})} :
              o1 \in o1s} :
        h \in helpers}

HelperOutcomes ==
    {[found |-> FALSE, exec |-> FALSE, code |-> None],
     [found |-> TRUE,  exec |-> FALSE, code |-> None],
     [found |-> TRUE,  exec |-> TRUE,  code |-> None]}
    \cup {[found |-> TRUE, exec |-> TRUE, code |-> Some(c)] : c \in {-1, 0, 5, 6}}

\* ------------------------------------------------------------ start_polling
\* The values start_polling copies out of the configuration under the lock.
Snapshot(cfg) ==
    [topics_path |-> topics_path(cfg),
     poll_rate |-> effective_poll_rate(cfg),
     api_token |-> cfg.api_token,
     auth_user |-> cfg.auth_user,
     auth_pass |-> cfg.auth_pass,
     base_url |-> api_base_url(cfg),
     urgent_threshold |-> cfg.urgent_priority_threshold,
     notification_sound |-> cfg.notification_sound,
     urgent_notification_sound |-> cfg.urgent_notification_sound,
     persistent_notifications_mode |-> cfg.persistent_notifications_mode]

\* The title of the notification: the message title when non-empty.
NotificationTitle(msg) ==
    IF IsSome(msg.title) /\ Unwrap(msg.title) # ""
    THEN Unwrap(msg.title)
    ELSE "New Notification"

\* "Format message with topic at the end"
FormattedMessage(msg) ==
    LET topic == UnwrapOr(msg.topic, "ntfy")
        body == UnwrapOr(msg.message, "")
    IN  IF body = "" THEN <<"Topic: ", topic>>
        ELSE <<body, "\n\nTopic: ", topic>>

\* Mutant of IsUrgent: the comparison is strict.
IsUrgent_strict(msg, s) == UnwrapOr(msg.priority, DEFAULT_PRIORITY) > s.urgent_threshold

\* priority >= urgent_threshold, a missing priority being 3.
IsUrgent(msg, s) == UnwrapOr(msg.priority, DEFAULT_PRIORITY) >= s.urgent_threshold

\* Mutant of NotificationDataOf: the inline match treats UrgentOnly as All,
\* and a message that is not urgent gets no sound.
NotificationDataOf_drift(msg, s) ==
    LET urgent == UnwrapOr(msg.priority, DEFAULT_PRIORITY) >= s.urgent_threshold
    IN  [title |-> IF IsSome(msg.title) /\ Unwrap(msg.title) # ""
                   THEN Unwrap(msg.title) ELSE "New Notification",
         message |-> IF UnwrapOr(msg.message, "") = ""
                     THEN <<"Topic: ", UnwrapOr(msg.topic, "ntfy")>>
                     ELSE <<UnwrapOr(msg.message, ""), "\n\nTopic: ",
                            UnwrapOr(msg.topic, "ntfy")>>,
         topic |-> UnwrapOr(msg.topic, "ntfy"),
         urgent |-> urgent,
         sound |-> IF urgent THEN s.urgent_notification_sound ELSE "None",
         persistent |-> s.persistent_notifications_mode # "Off",
         icon_url |-> msg.icon]

\* The NotificationData start_polling builds for a message from the
\* snapshot s (the subtitle, which no dispatch mechanism reads, is left out).
NotificationDataOf(msg, s) ==
    LET urgent == IsUrgent(msg, s)
    IN  [title |-> NotificationTitle(msg),
         message |-> FormattedMessage(msg),
         topic |-> UnwrapOr(msg.topic, "ntfy"),
         urgent |-> urgent,
         sound |-> IF urgent THEN s.urgent_notification_sound
                   ELSE s.notification_sound,
         persistent |-> CASE s.persistent_notifications_mode = "Off" -> FALSE
                          [] s.persistent_notifications_mode = "All" -> TRUE
                          [] s.persistent_notifications_mode = "UrgentOnly" -> urgent,
         icon_url |-> msg.icon]

\* Mutant of TrackedId: a missing id is replaced by the empty string.
TrackedId_default(msg) == Some(UnwrapOr(msg.id, ""))

\* `match &msg.id`: the id the message is tracked under; None skips it.
TrackedId(msg) == msg.id

\* Mutant of AlreadySeen: the dedup lookup always misses.
AlreadySeen_never(id, seen) == FALSE

\* seen_ids.contains(&msg_id)
AlreadySeen(id, seen) == id \in seen

\* The dedup test of the message loop: a message is new when it has an id
\* that is not in seen_ids.
IsNewMessage(msg, seen) ==
    /\ IsSome(TrackedId(msg))
    /\ ~AlreadySeen(Unwrap(TrackedId(msg)), seen)

\* Mutant of CleanupDue: the interval itself already triggers the cleanup.
CleanupDue_inclusive(e) == e >= CLEANUP_INTERVAL

\* last_cleanup.elapsed() > cleanup_interval
CleanupDue(e) == e > CLEANUP_INTERVAL

\* Instants at which the loops observe the time since the last cleanup.  A
\* sleep lasts at least its duration (tokio::time::sleep may oversleep), so
\* after sleeping d the elapsed time is any observed instant >= elapsed + d;
\* every elapsed time above the cleanup interval is represented by 3601.
ElapsedGrid == {0, 1800, 3600, 3601}

ElapsedAfter(e, d) ==
    {g \in ElapsedGrid : g >= Min(e + d, CLEANUP_INTERVAL + 1)}

\* ------------------------------------------------------------------- state
VARIABLES
    platform,      \* target_os the binary was built for
    local_icons,   \* the bundled icon files that exist on disk
    icon_cache,    \* icon cache directory: URL -> age of its file, or NoFile
    last,          \* outcome of the latest show_notification_full call
    config,        \* SharedConfig: the AppConfig behind the mutex
    cfg_lock,      \* holder of the SharedConfig mutex
    save_pending,  \* the AppConfig a running save_config command is storing
    is_polling,    \* the AtomicBool reentrancy guard
    client,        \* the shared NtfyClient
    pc,            \* per loop: position in start_polling
    snap,          \* per loop: the snapshot tuple of the current cycle
    seen_ids,      \* per loop: HashSet of delivered ids
    elapsed,       \* per loop: last_cleanup.elapsed()
    msgs,          \* per loop: messages of the batch not yet processed
    new_count,     \* per loop: new_count of the current cycle
    sleep_dur,     \* per loop: duration of the sleep in progress
    req,           \* per loop: the long-poll request in flight
    poll_result,   \* per loop: result of the last poll_messages call
    batch,         \* per loop: the batch the cycle's poll returned
    cycle_events,  \* per loop: skips, dispatches and events of the current cycle
    epoch_log,     \* per loop: ids of the notifications dispatched since the last clear
    sent,          \* per loop, history: the request of the last completed poll
    forgotten,     \* per loop, history: the ids the cleanups removed from seen_ids
    waited,        \* per loop, history: seconds known to have passed since the last poll response
    t_client,      \* an NtfyClient built outside the loop (setup, test_connection)
    t_given,       \* the credentials that client was built from
    t_req,         \* the latest request made with that client
    call           \* a call of one function in progress: its arguments and result

vars == <<platform, local_icons, icon_cache, last, config, cfg_lock,
          save_pending, is_polling, client, pc, snap, seen_ids, elapsed, msgs,
          new_count, sleep_dur, req, poll_result, batch, cycle_events, epoch_log,
          sent, forgotten, waited, t_client, t_given, t_req, call>>

authVars == <<t_client, t_given, t_req, call>>
notifyVars == <<platform, local_icons, icon_cache, last>>
configVars == <<config, cfg_lock, save_pending>>
loopVars == <<pc, snap, seen_ids, elapsed, msgs, new_count, sleep_dur, req,
              poll_result, batch, cycle_events, epoch_log, sent, forgotten,
              waited>>

Loops == 1..NLoops

\* ------------------------------------------------------------ input domains
Platforms == {"windows", "macos", "linux"}

MsgIds == {"m1", "m2", "m3"}

Message(id, event, priority, title, message, topic, icon) ==
    [id |-> id, event |-> event, priority |-> priority, title |-> title,
     message |-> message, topic |-> topic, icon |-> icon]

\* The JSON objects the server sends in the model.
MsgPool ==
    {Message(Some("m1"), Some("message"), Some(5), Some("T"), Some("hi"), Some("t"), Some("u1")),
     Message(Some("m1"), Some("message"), None, None, None, None, None),
     Message(Some("m2"), Some("message"), Some(3), Some(""), Some(""), Some("t"), None),
     Message(None, Some("message"), Some(5), Some("T"), Some("hi"), Some("t"), Some("u1")),
     Message(Some("m3"), Some("open"), None, None, None, Some("t"), None),
     Message(Some("m3"), None, Some(4), Some("T"), Some("hi"), Some("t"), None)}

NoMessage == Message(None, None, None, None, None, None, None)

\* Lines of an NDJSON body: blank, not parseable, or a JSON object.
Lines ==
    {[kind |-> "blank", msg |-> NoMessage], [kind |-> "bad", msg |-> NoMessage]}
    \cup {[kind |-> "json", msg |-> m] : m \in MsgPool}

SeqsUpTo(S, n) == UNION {[1..k -> S] : k \in 0..n}

\* Outcomes of request.send() and response.text().
Responses(bodies) ==
    {[kind |-> "transport", status |-> 0, body_ok |-> FALSE, body |-> << >>]}
    \cup {[kind |-> "http", status |-> st, body_ok |-> TRUE, body |-> << >>] :
          st \in {401, 429, 404, 500}}
    \cup {[kind |-> "http", status |-> 200, body_ok |-> FALSE, body |-> << >>]}
    \cup {[kind |-> "http", status |-> 200, body_ok |-> TRUE, body |-> b] :
          b \in bodies}

AllResponses == Responses(SeqsUpTo(Lines, MaxLines))

AppConfig(url, token, user, pass, topics, rate, threshold, snd, usnd, mode) ==
    [instance_url |-> url, api_token |-> token, auth_user |-> user,
     auth_pass |-> pass, topics |-> topics, poll_rate |-> rate,
     urgent_priority_threshold |-> threshold, notification_sound |-> snd,
     urgent_notification_sound |-> usnd, persistent_notifications_mode |-> mode]

\* The configurations the settings layer saves in the model.
ConfigPool ==
    {AppConfig(<<"h", "/", "a", "p", "p">>, "", "", "", <<"a", ",", " ", "b">>,
               1800, 4, "Default", "Alert", "Off"),
     AppConfig(<<"h", "/">>, "tok", "usr", "pw", <<"a">>,
               3, 3, "None", "Bell", "UrgentOnly"),
     AppConfig(<<"g">>, "", "", "pw", <<" ", ",">>,
               5000, 5, "Chime", "Chime", "All")}

NoDispatch == None
LockFree == [held |-> FALSE, loop |-> 0]
LockedBySave == [held |-> TRUE, loop |-> 0]
LockedByLoop(l) == [held |-> TRUE, loop |-> l]

\* -------------------------------------------------------------------- Init
Init ==
    /\ platform \in Platforms
    /\ local_icons \in
          (IF platform = "windows"
           THEN {{}, {"exe/icons/32x32.png", "dev/icons/128x128.png"}}
           ELSE {{}})
    /\ icon_cache = [u \in IconUrls |-> NoFile]
    /\ last = NoDispatch
    /\ config \in ConfigPool
    /\ cfg_lock = LockFree
    /\ save_pending = None
    /\ is_polling = FALSE
    /\ client = SetupClient(config)
    /\ pc = [l \in Loops |-> "guard"]
    /\ snap = [l \in Loops |-> None]
    /\ seen_ids = [l \in Loops |-> {}]
    /\ elapsed = [l \in Loops |-> 0]
    /\ msgs = [l \in Loops |-> << >>]
    /\ new_count = [l \in Loops |-> 0]
    /\ sleep_dur = [l \in Loops |-> 0]
    /\ req = [l \in Loops |-> None]
    /\ poll_result = [l \in Loops |-> "none"]
    /\ cycle_events = [l \in Loops |-> << >>]
    /\ batch = [l \in Loops |-> << >>]
    /\ epoch_log = [l \in Loops |-> << >>]
    /\ sent = [l \in Loops |-> None]
    /\ forgotten = [l \in Loops |-> {}]
    /\ waited = [l \in Loops |-> 0]
    /\ t_client = NtfyClient_new(<<"h">>)
    /\ t_given = [api_token |-> "", auth_user |-> "", auth_pass |-> ""]
    /\ t_req = None
    /\ call = None

\* ----------------------------------------------------- start_polling steps
\* Mutant of GuardHeld: the previous value of the flag is ignored.
GuardHeld_never(flag) == FALSE

\* is_polling.swap(true): whether the loop finds the guard held.
GuardHeld(flag) == flag

\* "Guard against concurrent polling": swap the flag; when it was set, sleep
\* one second and retry, otherwise the cycle starts.
GuardSwap(l) ==
    /\ pc[l] = "guard"
    /\ is_polling' = TRUE
    /\ IF GuardHeld(is_polling)
       THEN /\ pc' = [pc EXCEPT ![l] = "guard_sleep"]
            /\ sleep_dur' = [sleep_dur EXCEPT ![l] = GUARD_RETRY_SECS]
       ELSE /\ pc' = [pc EXCEPT ![l] = "cfg_lock"]
            /\ UNCHANGED sleep_dur
    /\ UNCHANGED <<authVars, sent, forgotten, waited, notifyVars, configVars, client, snap, seen_ids, elapsed,
                   msgs, new_count, req, poll_result, batch, cycle_events, epoch_log>>

\* The end of a sleep: at least the duration has passed.  The history
\* variable `waited` is left to the specification: Untimed or Slept.
Wake(l, from) ==
    /\ pc[l] = from
    /\ \E e \in ElapsedAfter(elapsed[l], sleep_dur[l]) :
          elapsed' = [elapsed EXCEPT ![l] = e]
    /\ pc' = [pc EXCEPT ![l] = "guard"]
    /\ sleep_dur' = [sleep_dur EXCEPT ![l] = 0]
    /\ UNCHANGED <<authVars, sent, forgotten, notifyVars, configVars, is_polling, client, snap, seen_ids, msgs,
                   new_count, req, poll_result, batch, cycle_events, epoch_log>>

\* sleep(1 s) after finding the guard held, then `continue`.
GuardWake(l) == Wake(l, "guard_sleep")

\* sleep(5 s) after an empty topic list, then `continue`.
EmptyWake(l) == Wake(l, "empty_sleep")

\* sleep(poll_rate) at the end of a cycle.
SleepWake(l) == Wake(l, "sleep")

\* config.lock().await of the snapshot block.
SnapshotLock(l) ==
    /\ pc[l] = "cfg_lock"
    /\ cfg_lock = LockFree
    /\ cfg_lock' = LockedByLoop(l)
    /\ pc' = [pc EXCEPT ![l] = "cfg_read"]
    /\ UNCHANGED <<authVars, sent, forgotten, waited, notifyVars, config, save_pending, is_polling, client, snap,
                   seen_ids, elapsed, msgs, new_count, sleep_dur, req, poll_result,
                   batch, cycle_events, epoch_log>>

\* Mutant of AfterSnapshot: the guard `cfg` outlives the snapshot block.
AfterSnapshot_held(l) == LockedByLoop(l)

\* The state of the mutex when the snapshot block ends: the guard `cfg` is
\* dropped at the closing brace.
AfterSnapshot(l) == LockFree

\* Mutant of GuardAfterEmptyTopics: the short circuit forgets the guard.
GuardAfterEmptyTopics_held == TRUE

\* is_polling.store(false) of the empty-topics short circuit.
GuardAfterEmptyTopics == FALSE

\* The snapshot is copied and the lock released; an empty topic path
\* releases the guard and sleeps 5 s.
SnapshotRead(l) ==
    /\ pc[l] = "cfg_read"
    /\ cfg_lock = LockedByLoop(l)
    /\ cfg_lock' = AfterSnapshot(l)
    /\ snap' = [snap EXCEPT ![l] = Some(Snapshot(config))]
    /\ IF Snapshot(config).topics_path = << >>
       THEN /\ is_polling' = GuardAfterEmptyTopics
            /\ pc' = [pc EXCEPT ![l] = "empty_sleep"]
            /\ sleep_dur' = [sleep_dur EXCEPT ![l] = EMPTY_TOPICS_SECS]
       ELSE /\ pc' = [pc EXCEPT ![l] = "update_client"]
            /\ UNCHANGED <<is_polling, sleep_dur>>
    /\ UNCHANGED <<authVars, sent, forgotten, waited, notifyVars, config, save_pending, client, seen_ids, elapsed,
                   msgs, new_count, req, poll_result, batch, cycle_events, epoch_log>>

\* "Update client auth and base_url if changed"
UpdateClient(l) ==
    /\ pc[l] = "update_client"
    /\ client' = UpdateClientFields(client, Unwrap(snap[l]))
    /\ pc' = [pc EXCEPT ![l] = "send"]
    /\ UNCHANGED <<authVars, sent, forgotten, waited, notifyVars, configVars, is_polling, snap, seen_ids, elapsed,
                   msgs, new_count, sleep_dur, req, poll_result, batch, cycle_events,
                   epoch_log>>

\* poll_messages sends the GET request.
PollSend(l) ==
    /\ pc[l] = "send"
    /\ req' = [req EXCEPT ![l] =
                 Some(PollRequest(client, Unwrap(snap[l]).topics_path,
                                  Unwrap(snap[l]).poll_rate))]
    /\ pc' = [pc EXCEPT ![l] = "in_flight"]
    /\ UNCHANGED <<authVars, sent, forgotten, waited, notifyVars, configVars, is_polling, client, snap, seen_ids,
                   elapsed, msgs, new_count, sleep_dur, poll_result, batch, cycle_events,
                   epoch_log>>

\* Mutant of ErrorArmEvents: a failed poll emits badge-update with 0.
ErrorArmEvents_badge(err) ==
    <<[type |-> "badge-update", msg |-> NoMessage, count |-> 0,
       result |-> "", shown |-> FALSE]>>

\* The events of the Err arm of the match on the poll result: the error is
\* printed and nothing is emitted.
ErrorArmEvents(err) == << >>

\* The request completes: poll_messages returns the batch or an error
\* (`waited` is left to the specification: Untimed or ResponseTaken).
PollResponse(l, resp) ==
    /\ pc[l] = "in_flight"
    /\ LET r == poll_messages(resp)
       IN  /\ poll_result' = [poll_result EXCEPT ![l] = IF r.ok THEN "Ok" ELSE r.err]
           /\ msgs' = [msgs EXCEPT ![l] = r.messages]
           /\ batch' = [batch EXCEPT ![l] = r.messages]
           /\ pc' = [pc EXCEPT ![l] = IF r.ok THEN "process" ELSE "release"]
           /\ cycle_events' = [cycle_events EXCEPT ![l] =
                 IF r.ok THEN cycle_events[l]
                 ELSE cycle_events[l] \o ErrorArmEvents(r.err)]
    /\ new_count' = [new_count EXCEPT ![l] = 0]
    /\ sent' = [sent EXCEPT ![l] = req[l]]
    /\ req' = [req EXCEPT ![l] = None]
    /\ UNCHANGED <<authVars, forgotten, notifyVars, configVars, is_polling, client, snap, seen_ids,
                   elapsed, sleep_dur, epoch_log>>

\* One iteration of `for msg in messages` for a message that is skipped:
\* no id, or an id already in seen_ids.
SkipMessage(l) ==
    /\ pc[l] = "process"
    /\ msgs[l] # << >>
    /\ ~IsNewMessage(Head(msgs[l]), seen_ids[l])
    /\ msgs' = [msgs EXCEPT ![l] = Tail(msgs[l])]
    /\ cycle_events' = [cycle_events EXCEPT ![l] =
                          Append(cycle_events[l],
                                 [type |-> "skip", msg |-> Head(msgs[l]), count |-> 0,
                                  result |-> "", shown |-> FALSE])]
    /\ UNCHANGED <<authVars, sent, forgotten, waited, notifyVars, configVars, is_polling, client, pc, snap,
                   seen_ids, elapsed, new_count, sleep_dur, req, poll_result, batch,
                   epoch_log>>

\* Whether the message loop goes on after show_notification_full returned.
ContinuesAfter(result) == TRUE

\* Mutant of NewNotificationEvents: the event is emitted twice.
NewNotificationEvents_twice(msg) ==
    <<[type |-> "new-notification", msg |-> msg, count |-> 0, result |-> "",
       shown |-> FALSE],
      [type |-> "new-notification", msg |-> msg, count |-> 0, result |-> "",
       shown |-> FALSE]>>

\* app_handle.emit("new-notification", &msg) after the dispatch.
NewNotificationEvents(msg) ==
    <<[type |-> "new-notification", msg |-> msg, count |-> 0, result |-> "",
       shown |-> FALSE]>>

\* Mutant of DispatchSnapshot: the values are read from the shared
\* configuration again for every message.
DispatchSnapshot_fresh(l) == Snapshot(config)

\* The locals the message loop derives urgency, sound and persistence
\* from: the values copied under the lock at the start of the cycle.
DispatchSnapshot(l) == Unwrap(snap[l])

\* Mutant of SeenAfterDispatch: the id of a notification that was not shown
\* is taken out again.
SeenAfterDispatch_rollback(seen, id, shown) ==
    IF shown THEN seen \cup {id} ELSE seen

\* seen_ids after an iteration for a new message: seen_ids.insert(msg_id)
\* precedes the dispatch and nothing removes the id afterwards, whether the
\* notification was shown or not.
SeenAfterDispatch(seen, id, shown) == seen \cup {id}

\* One iteration of `for msg in messages` for a new message: the id is
\* inserted and counted, the notification dispatched, the event emitted
\* (`waited` is left to the specification: Untimed or Took).
DeliverMessage(l, helpers, nets, shows) ==
    /\ pc[l] = "process"
    /\ msgs[l] # << >>
    /\ IsNewMessage(Head(msgs[l]), seen_ids[l])
    /\ LET msg == Head(msgs[l])
           id == Unwrap(TrackedId(msg))
           data == NotificationDataOf(msg, DispatchSnapshot(l))
       IN  /\ new_count' = [new_count EXCEPT ![l] = new_count[l] + 1]
           /\ epoch_log' = [epoch_log EXCEPT ![l] = Append(epoch_log[l], id)]
           /\ \E env \in DispatchEnvs(platform, data, icon_cache, helpers, nets, shows) :
                 LET r == show_notification_full(platform, data, icon_cache,
                                                 local_icons, env)
                 IN  /\ icon_cache' = r.cache
                     /\ seen_ids' = [seen_ids EXCEPT ![l] =
                            SeenAfterDispatch(seen_ids[l], id, r.shown)]
                     /\ IF ContinuesAfter(r.result)
                        THEN /\ cycle_events' = [cycle_events EXCEPT ![l] =
                                   cycle_events[l] \o
                                   <<[type |-> "dispatch", msg |-> msg, count |-> 0,
                                      result |-> r.result, shown |-> r.shown,
                                      data |-> data]>>
                                   \o NewNotificationEvents(msg)]
                             /\ msgs' = [msgs EXCEPT ![l] = Tail(msgs[l])]
                        ELSE /\ cycle_events' = [cycle_events EXCEPT ![l] =
                                   Append(cycle_events[l],
                                          [type |-> "dispatch", msg |-> msg,
                                           count |-> 0, result |-> r.result,
                                           shown |-> r.shown, data |-> data])]
                             /\ msgs' = [msgs EXCEPT ![l] = << >>]
    /\ UNCHANGED <<authVars, sent, forgotten, platform, local_icons, last, configVars, is_polling,
                   client, pc, snap, elapsed, sleep_dur, req, poll_result, batch>>

\* Mutant of BadgeEvents: the event is emitted for a count of zero too.
BadgeEvents_always(count) ==
    <<[type |-> "badge-update", msg |-> NoMessage, count |-> count,
       result |-> "", shown |-> FALSE]>>

\* The events emitted after the message loop.
BadgeEvents(count) ==
    IF count > 0
    THEN <<[type |-> "badge-update", msg |-> NoMessage, count |-> count,
            result |-> "", shown |-> FALSE]>>
    ELSE << >>

\* After the message loop: "badge-update" with new_count when it is positive.
EmitBadge(l) ==
    /\ pc[l] = "process"
    /\ msgs[l] = << >>
    /\ cycle_events' = [cycle_events EXCEPT ![l] =
                          cycle_events[l] \o BadgeEvents(new_count[l])]
    /\ pc' = [pc EXCEPT ![l] = "release"]
    /\ UNCHANGED <<authVars, sent, forgotten, waited, notifyVars, configVars, is_polling, client, snap, seen_ids,
                   elapsed, msgs, new_count, sleep_dur, req, poll_result, batch,
                   epoch_log>>

\* Mutant of GuardAfterCycle: the guard stays set after the cycle.
GuardAfterCycle_held == TRUE

\* is_polling.store(false) after the match on the poll result.
GuardAfterCycle == FALSE

\* Mutant of SeenAfterCleanup: the cleanup removes one id only.
SeenAfterCleanup_one(seen) ==
    IF seen = {} THEN {} ELSE seen \ {CHOOSE id \in seen : TRUE}

\* seen_ids.clear()
SeenAfterCleanup(seen) == {}

\* is_polling.store(false) and the periodic cleanup of seen_ids.  The
\* cycle's locals (snapshot, batch, counters) go out of use here.  The
\* history variable `forgotten` is left to the specification: Unobserved or
\* Forget.
Release(l) ==
    /\ pc[l] = "release"
    /\ is_polling' = GuardAfterCycle
    /\ IF CleanupDue(elapsed[l])
       THEN /\ seen_ids' = [seen_ids EXCEPT ![l] =
                                SeenAfterCleanup(seen_ids[l])]
            /\ elapsed' = [elapsed EXCEPT ![l] = 0]
            /\ epoch_log' = [epoch_log EXCEPT ![l] = << >>]
       ELSE UNCHANGED <<seen_ids, elapsed, epoch_log>>
    /\ pc' = [pc EXCEPT ![l] = "rate_lock"]
    /\ snap' = [snap EXCEPT ![l] = None]
    /\ new_count' = [new_count EXCEPT ![l] = 0]
    /\ batch' = [batch EXCEPT ![l] = << >>]
    /\ cycle_events' = [cycle_events EXCEPT ![l] = << >>]
    /\ UNCHANGED <<authVars, sent, waited, notifyVars, configVars, client, msgs,
                   sleep_dur, req, poll_result>>

\* config.lock().await before the final sleep.
RateLock(l) ==
    /\ pc[l] = "rate_lock"
    /\ cfg_lock = LockFree
    /\ cfg_lock' = LockedByLoop(l)
    /\ pc' = [pc EXCEPT ![l] = "rate_read"]
    /\ UNCHANGED <<authVars, sent, forgotten, waited, notifyVars, config, save_pending, is_polling, client, snap,
                   seen_ids, elapsed, msgs, new_count, sleep_dur, req, poll_result,
                   batch, cycle_events, epoch_log>>

\* Mutant of SleepInterval: the interval is doubled (a backoff).
SleepInterval_backoff(cfg) == 2 * effective_poll_rate(cfg)

\* Mutant of SleepInterval: the rate sent with the cycle's request, that is
\* the snapshot's, is reused.
SleepInterval_snapshot(cfg) ==
    IF sent[1] = None THEN effective_poll_rate(cfg) ELSE Unwrap(sent[1]).since

\* The interval of the final sleep.
SleepInterval(cfg) == effective_poll_rate(cfg)

\* The poll rate is re-read, the lock released and the sleep started.
RateRead(l) ==
    /\ pc[l] = "rate_read"
    /\ cfg_lock = LockedByLoop(l)
    /\ cfg_lock' = LockFree
    /\ sleep_dur' = [sleep_dur EXCEPT ![l] = SleepInterval(config)]
    /\ pc' = [pc EXCEPT ![l] = "sleep"]
    /\ UNCHANGED <<authVars, sent, forgotten, waited, notifyVars, config, save_pending, is_polling, client, snap,
                   seen_ids, elapsed, msgs, new_count, req, poll_result,
                   batch, cycle_events, epoch_log>>

\* ------------------------------------------------------------- save_config
\* shared.0.lock().await of save_config.  The frame of the command (`call`)
\* is left to the specification.
SharedLock(c) ==
    /\ save_pending = None
    /\ cfg_lock = LockFree
    /\ cfg_lock' = LockedBySave
    /\ save_pending' = Some(c)
    /\ UNCHANGED <<t_client, t_given, t_req, notifyVars, config, is_polling, client,
                   loopVars>>

\* *locked = config, and the guard is dropped.
SharedStore ==
    /\ save_pending # None
    /\ cfg_lock = LockedBySave
    /\ config' = Unwrap(save_pending)
    /\ cfg_lock' = LockFree
    /\ save_pending' = None
    /\ UNCHANGED <<t_client, t_given, t_req, notifyVars, is_polling, client, loopVars>>

\* The save_config command after the keychain and the file were written:
\* shared.0.lock().await.
SaveConfigLock(c) == SharedLock(c) /\ UNCHANGED call

\* *locked = config, and the guard is dropped.
SaveConfigStore == SharedStore /\ UNCHANGED call

\* Mutant of AfterFileWrite: the error of the file write is ignored.
AfterFileWrite_ignored(ok) == "lock"

\* `config::save_config(...).await.map_err(...)?`: the command goes on to
\* the shared configuration only when the file was written.
AfterFileWrite(ok) == IF ok THEN "lock" ELSE "failed"

\* The frame of a running save_config command: its argument, the step it
\* is at, whether the keychain and the file took the values, and the shared
\* configuration as it was when the command began.
SaveFrame(c, at, keychain, file) ==
    Some([fn |-> "save_config", arg |-> c, at |-> at,
          keychain |-> keychain, file |-> file,
          before |-> IF call = None THEN config ELSE Unwrap(call).before])

SavingAt(at) ==
    /\ call # None
    /\ Unwrap(call).fn = "save_config"
    /\ Unwrap(call).at = at

\* The settings page invokes save_config(config).
SaveConfigCall(c) ==
    /\ call = None
    /\ save_pending = None
    /\ call' = SaveFrame(c, "keychain", FALSE, FALSE)
    /\ UNCHANGED <<t_client, t_given, t_req, notifyVars, configVars, is_polling,
                   client, loopVars>>

\* credentials::save_credentials(&creds).map_err(...)?
SaveCredentials(ok) ==
    /\ SavingAt("keychain")
    /\ call' = SaveFrame(Unwrap(call).arg, IF ok THEN "file" ELSE "failed", ok, FALSE)
    /\ UNCHANGED <<t_client, t_given, t_req, notifyVars, configVars, is_polling,
                   client, loopVars>>

\* config::save_config(&app_handle, config.clone()).await.map_err(...)?
WriteConfigFile(ok) ==
    /\ SavingAt("file")
    /\ call' = SaveFrame(Unwrap(call).arg, AfterFileWrite(ok), TRUE, ok)
    /\ UNCHANGED <<t_client, t_given, t_req, notifyVars, configVars, is_polling,
                   client, loopVars>>

\* let mut locked = shared.0.lock().await
SaveCommandLock ==
    /\ SavingAt("lock")
    /\ SharedLock(Unwrap(call).arg)
    /\ call' = SaveFrame(Unwrap(call).arg, "store", Unwrap(call).keychain,
                         Unwrap(call).file)

\* *locked = config
SaveCommandStore ==
    /\ SavingAt("store")
    /\ SharedStore
    /\ call' = SaveFrame(Unwrap(call).arg, "stored", Unwrap(call).keychain,
                         Unwrap(call).file)

\* The command returns Ok(()) or the error.
SaveCommandReturn ==
    /\ call # None
    /\ Unwrap(call).fn = "save_config"
    /\ Unwrap(call).at \in {"stored", "failed"}
    /\ call' = None
    /\ UNCHANGED <<t_client, t_given, t_req, notifyVars, configVars, is_polling,
                   client, loopVars>>

\* ------------------------------------------- show_notification_full, direct
Sounds == {"Default", "None", "Alert", "Bell", "Chime", "Pop"}

\* NotificationData values handed to show_notification_full directly.
DataPool ==
    {[title |-> "T", message |-> <<"hi", "\n\nTopic: ", "t">>, topic |-> "t",
      urgent |-> u, sound |-> IF u THEN "Bell" ELSE "None", persistent |-> u,
      icon_url |-> i] :
     u \in BOOLEAN, i \in {None} \cup {Some(x) : x \in IconUrls}}

\* A call of the public show_notification_full outside the poll loop.
ShowNotificationFull(data) ==
    /\ last = NoDispatch
    /\ \E env \in DispatchEnvs(platform, data, icon_cache, HelperOutcomes,
                               NetOutcomes, BOOLEAN) :
          LET r == show_notification_full(platform, data, icon_cache, local_icons, env)
          IN  /\ icon_cache' = r.cache
              /\ last' = Some([data |-> data, env |-> env,
                               out |-> [r EXCEPT !.cache = << >>]])
    /\ UNCHANGED <<authVars, platform, local_icons, configVars, is_polling, client, loopVars>>

\* The ages at which the cache files are observed: fresh, one second
\* before the TTL, at the TTL, and beyond it (every larger age).
AgeGrid == {0, ICON_TTL_SECS - 1, ICON_TTL_SECS, ICON_TTL_SECS + 1}

AgeSteps == {1, 2, ICON_TTL_SECS - 1, ICON_TTL_SECS, ICON_TTL_SECS + 1}

AgedBy(cache, d) ==
    [u \in IconUrls |->
        IF cache[u] = NoFile THEN NoFile
        ELSE Min(cache[u] + d, ICON_TTL_SECS + 1)]

\* Wall-clock time passes by d seconds: every cache file ages by d.
TimePasses ==
    /\ last = NoDispatch
    /\ \E d \in AgeSteps :
          /\ AgedBy(icon_cache, d) # icon_cache
          /\ \A u \in IconUrls :
                AgedBy(icon_cache, d)[u] \in AgeGrid \cup {NoFile}
          /\ icon_cache' = AgedBy(icon_cache, d)
    /\ UNCHANGED <<authVars, platform, local_icons, last, configVars, is_polling, client,
                   loopVars>>

\* The call has returned to its caller.
Returned ==
    /\ last # NoDispatch
    /\ last' = NoDispatch
    /\ UNCHANGED <<authVars, platform, local_icons, icon_cache, configVars, is_polling,
                   client, loopVars>>

\* ---------------------------------------------------------- specifications
\* The cleanups are not recorded.
Unobserved(l) == UNCHANGED forgotten

\* The ids a cleanup removes from seen_ids are recorded.
Forget(l) ==
    forgotten' = [forgotten EXCEPT ![l] = forgotten[l] \cup (seen_ids[l] \ seen_ids'[l])]

\* The passage of time is not recorded.
Untimed(l) == UNCHANGED waited

\* Lower bounds on the seconds passed since the last poll response that the
\* history distinguishes: none, some, the shortest poll interval, more than
\* it, and so on up to more than the longest interval.
WaitGrid == {0, 1, MIN_POLL_RATE, MIN_POLL_RATE + 1, 1800, 1801,
             MAX_POLL_RATE, MAX_POLL_RATE + 1}

\* After d more seconds: the largest recorded bound that has passed.
WaitedAfter(w, d) ==
    CHOOSE g \in WaitGrid :
        /\ g <= w + d
        /\ \A h \in WaitGrid : h <= w + d => h <= g

\* tokio::time::sleep(d) returned: at least d seconds have passed.
Slept(l) ==
    waited' = [waited EXCEPT ![l] = WaitedAfter(waited[l], sleep_dur[l])]

\* The response of the poll was taken: the time is counted from here.
ResponseTaken(l) == waited' = [waited EXCEPT ![l] = 0]

\* Seconds a dispatch can take: show_notification_full awaits the platform
\* command (on Windows until ntfytoast.exe exits) and the icon download.
DispatchSecs == {0, 1}

\* The dispatch took d seconds.
Took(l, d) == waited' = [waited EXCEPT ![l] = WaitedAfter(waited[l], d)]

\* The steps of start_polling that take no time of their own.
CycleCore(l) ==
    \/ GuardSwap(l)
    \/ SnapshotLock(l)
    \/ SnapshotRead(l)
    \/ UpdateClient(l)
    \/ PollSend(l)
    \/ SkipMessage(l)
    \/ EmitBadge(l)
    \/ RateLock(l)
    \/ RateRead(l)

\* The steps of start_polling up to the end of the message loop and after
\* the cleanup.
CycleStep(l, resps, helpers, nets, shows) ==
    \/ CycleCore(l)
    \/ (GuardWake(l) \/ EmptyWake(l) \/ SleepWake(l)) /\ Untimed(l)
    \/ (\E resp \in resps : PollResponse(l, resp)) /\ Untimed(l)
    \/ DeliverMessage(l, helpers, nets, shows) /\ Untimed(l)

LoopStep(l, resps, helpers, nets, shows) ==
    \/ CycleStep(l, resps, helpers, nets, shows)
    \/ Release(l) /\ Unobserved(l)

SaveConfig ==
    \/ \E c \in ConfigPool : SaveConfigLock(c)
    \/ SaveConfigStore

LoopHelpers ==
    {[found |-> FALSE, exec |-> FALSE, code |-> None],
     [found |-> TRUE,  exec |-> TRUE,  code |-> Some(0)],
     [found |-> TRUE,  exec |-> TRUE,  code |-> Some(6)]}

\* The application: main.rs spawns one start_polling task; the settings
\* layer saves configurations at any time.  The server sends every body of
\* up to MaxLines lines; the build is the Linux one.
InitApp ==
    /\ Init
    /\ platform = "linux"

Next ==
    \/ LoopStep(1, AllResponses, LoopHelpers, {"ok"}, BOOLEAN)
    \/ SaveConfig

Spec == InitApp /\ [][Next]_vars

\* One start_polling task on every platform, with every outcome of the
\* platform dispatch; the configuration is not changed.
DeliverResponses ==
    {r \in Responses(SeqsUpTo({[kind |-> "json", msg |-> m] :
                                 m \in {x \in MsgPool :
                                          x.id \in {Some("m1"), Some("m2")}}},
                              MaxLines)) :
        r.status \in {200, 500} /\ r.body_ok}

InitDeliver ==
    /\ Init
    /\ topics_path(config) # << >>

NextDeliver ==
    LoopStep(1, DeliverResponses, HelperOutcomes, NetOutcomes, BOOLEAN)

SpecDeliver == InitDeliver /\ [][NextDeliver]_vars

\* The notification manager alone: calls of show_notification_full with
\* every environment outcome, and the passage of time for the icon cache.
NextNotify ==
    \/ \E data \in DataPool : ShowNotificationFull(data)
    \/ Returned
    \/ TimePasses

SpecNotify == Init /\ [][NextNotify]_vars

\* Several start_polling loops sharing the is_polling flag, the client and
\* the configuration (the guard "defends against future multi-trigger
\* designs"); each loop has its own seen_ids and cleanup timer.
MultiResponses ==
    {r \in Responses({<<[kind |-> "json", msg |-> m]>> :
                      m \in {x \in MsgPool : x.id = Some("m2")}}) :
        r.status \in {200, 429} /\ r.body_ok}

InitMulti ==
    /\ Init
    /\ platform = "linux"
    /\ local_icons = {}

NextMulti ==
    \/ \E l \in Loops :
          LoopStep(l, MultiResponses, LoopHelpers, {"ok"}, {TRUE})

SpecMulti == InitMulti /\ [][NextMulti]_vars

\* The application with a server that fails: one loop, saves at any time.
\* The runtime schedules a ready task, every sleep ends, the HTTP client has
\* a 30 s timeout so that every request completes, and the tokio mutex is
\* FIFO-fair so that a waiting lock() is eventually granted.
RetryResponses ==
    {r \in Responses({<<[kind |-> "json", msg |-> m]>> :
                      m \in {x \in MsgPool : x.id = Some("m2")}}) :
        r.status # 404}

NextRetry ==
    \/ LoopStep(1, RetryResponses, LoopHelpers, {"ok"}, {TRUE})
    \/ SaveConfig

SpecRetry ==
    /\ InitApp
    /\ [][NextRetry]_vars
    /\ SF_vars(LoopStep(1, RetryResponses, LoopHelpers, {"ok"}, {TRUE}))
    /\ WF_vars(SaveConfigStore)

\* The application over several cleanup epochs: one loop, the configuration
\* as it was loaded, and the ids every cleanup removed kept on record.
NextEpoch ==
    \/ CycleStep(1, DeliverResponses, LoopHelpers, {"ok"}, {TRUE})
    \/ Release(1) /\ Forget(1)

SpecEpoch == InitApp /\ [][NextEpoch]_vars

\* The application with the time between polls on record: one loop, saves
\* at any time, every sleep lasting at least its duration and a dispatch
\* taking no time or some.
NextWindow ==
    \/ CycleCore(1)
    \/ (GuardWake(1) \/ EmptyWake(1) \/ SleepWake(1)) /\ Slept(1)
    \/ (\E resp \in DeliverResponses : PollResponse(1, resp)) /\ ResponseTaken(1)
    \/ \E d \in DispatchSecs :
          DeliverMessage(1, LoopHelpers, {"ok"}, {TRUE}) /\ Took(1, d)
    \/ Release(1) /\ Unobserved(1)
    \/ SaveConfig

SpecWindow == InitApp /\ [][NextWindow]_vars

\* The application with save_config commands whose keychain or file step
\* can fail: one loop, one command at a time.
NextSave ==
    \/ LoopStep(1, RetryResponses, LoopHelpers, {"ok"}, {TRUE})
    \/ \E c \in ConfigPool : SaveConfigCall(c)
    \/ \E ok \in BOOLEAN : SaveCredentials(ok)
    \/ \E ok \in BOOLEAN : WriteConfigFile(ok)
    \/ SaveCommandLock
    \/ SaveCommandStore
    \/ SaveCommandReturn

SpecSave == InitApp /\ [][NextSave]_vars

\* ------------------------------------------------- clients and their requests
Tokens == {"", "tok"}
Users == {"", "usr"}
Passes == {"", "pw"}
BaseUrls == {<<"h">>, <<"h", "/">>}

Given(t, u, p) == [api_token |-> t, auth_user |-> u, auth_pass |-> p]

\* The client the test_ntfy_connection command builds from its arguments.
TestConnectionClient(server_url, api_token, auth_user, auth_pass) ==
    LET c0 == NtfyClient_new(server_url)
    IN  IF IsSome(api_token) /\ Unwrap(api_token) # ""
        THEN with_token(c0, Unwrap(api_token))
        ELSE IF IsSome(auth_user) /\ Unwrap(auth_user) # ""
             THEN with_basic_auth(c0, Unwrap(auth_user), UnwrapOr(auth_pass, ""))
             ELSE c0

\* main.rs setup: the client of the poll loop, built from the loaded config.
ClientSetup(url, t, u, p) ==
    /\ t_client' = SetupClient(AppConfig(url, t, u, p, <<"a">>, 60, 4, "Default",
                                         "Default", "Off"))
    /\ t_given' = Given(t, u, p)
    /\ UNCHANGED <<call, t_req, notifyVars, configVars, is_polling, client, loopVars>>

\* test_ntfy_connection: a client from the command's optional arguments.
ClientForTest(url, t, u, p) ==
    /\ t_client' = TestConnectionClient(url, t, u, p)
    /\ t_given' = Given(UnwrapOr(t, ""), UnwrapOr(u, ""), UnwrapOr(p, ""))
    /\ UNCHANGED <<call, t_req, notifyVars, configVars, is_polling, client, loopVars>>

\* NtfyClient::new(url).with_token(t).with_basic_auth(u, p)
ClientBuilder(url, t, u, p) ==
    /\ t_client' = with_basic_auth(with_token(NtfyClient_new(url), t), u, p)
    /\ t_given' = Given(t, u, p)
    /\ UNCHANGED <<call, t_req, notifyVars, configVars, is_polling, client, loopVars>>

\* The per-cycle update of start_polling applied to the client.
ClientUpdate(url, t, u, p) ==
    /\ t_client' = UpdateClientFields(t_client,
                      [base_url |-> url, api_token |-> t, auth_user |-> u,
                       auth_pass |-> p])
    /\ t_given' = Given(t, u, p)
    /\ UNCHANGED <<call, t_req, notifyVars, configVars, is_polling, client, loopVars>>

\* poll_messages / test_connection: apply_auth on the GET request.
ClientRequest(kind) ==
    /\ t_req' = Some([kind |-> kind, given |-> t_given, client |-> t_client,
                      auth |-> apply_auth(t_client)])
    /\ UNCHANGED <<call, t_client, t_given, notifyVars, configVars, is_polling, client,
                   loopVars>>

NextAuth ==
    \/ \E url \in BaseUrls, t \in Tokens, u \in Users, p \in Passes :
          \/ ClientSetup(url, t, u, p)
          \/ ClientBuilder(url, t, u, p)
          \/ ClientUpdate(url, t, u, p)
    \/ \E url \in BaseUrls,
          t \in {None} \cup {Some(x) : x \in Tokens},
          u \in {None} \cup {Some(x) : x \in Users},
          p \in {None} \cup {Some(x) : x \in Passes} :
          ClientForTest(url, t, u, p)
    \/ \E kind \in {"poll_messages", "test_connection"} : ClientRequest(kind)

SpecAuth == Init /\ [][NextAuth]_vars

\* ------------------------------------------- the client's calls, one by one
\* The statuses a server answers with.
Statuses == {100, 199, 200, 204, 299, 300, 304, 400, 401, 403, 404, 429, 500, 503}

\* Every outcome of request.send() and of reading the body.
CallResponses ==
    {[kind |-> "transport", status |-> 0, body_ok |-> FALSE, body |-> << >>]}
    \cup {[kind |-> "http", status |-> st, body_ok |-> FALSE, body |-> << >>] :
          st \in Statuses}
    \cup {[kind |-> "http", status |-> st, body_ok |-> TRUE, body |-> << >>] :
          st \in {x \in Statuses : ~IsSuccess(x)}}
    \cup {[kind |-> "http", status |-> st, body_ok |-> TRUE, body |-> b] :
          st \in {x \in Statuses : IsSuccess(x)}, b \in SeqsUpTo(Lines, MaxLines)}

\* The clients a call is made on: built with the builder methods, or
\* overwritten by the per-cycle update.
CallClients ==
    {with_basic_auth(with_token(NtfyClient_new(<<"h">>), t), u, p) :
        t \in Tokens, u \in Users, p \in Passes}
    \cup {UpdateClientFields(NtfyClient_new(<<"h">>),
                             [base_url |-> <<"h">>, api_token |-> t,
                              auth_user |-> u, auth_pass |-> p]) :
          t \in Tokens, u \in Users, p \in Passes}

\* client.poll_messages(topics, poll_rate) meeting the response resp.
CallPollMessages(c, resp) ==
    /\ call = None
    /\ call' = Some([fn |-> "poll_messages", client |-> c, arg |-> resp,
                     req |-> PollRequest(c, <<"t">>, 60),
                     out |-> poll_messages(resp)])
    /\ UNCHANGED <<t_client, t_given, t_req, notifyVars, configVars, is_polling,
                   client, loopVars>>

\* client.test_connection(topic) meeting the response resp.
CallTestConnection(c, resp) ==
    /\ call = None
    /\ call' = Some([fn |-> "test_connection", client |-> c, arg |-> resp,
                     req |-> TestRequest(c, <<"t">>),
                     out |-> test_connection(resp)])
    /\ UNCHANGED <<t_client, t_given, t_req, notifyVars, configVars, is_polling,
                   client, loopVars>>

\* The call returns to its caller.
CallReturn ==
    /\ call # None
    /\ call' = None
    /\ UNCHANGED <<t_client, t_given, t_req, notifyVars, configVars, is_polling,
                   client, loopVars>>

InitCall ==
    /\ Init
    /\ platform = "linux"
    /\ config.instance_url = <<"g">>

\* One call at a time: a call is made when none is in progress.
NextClient ==
    \/ /\ call = None
       /\ \E c \in CallClients, resp \in CallResponses : CallPollMessages(c, resp)
    \/ /\ call = None
       /\ \E c \in CallClients, resp \in CallResponses : CallTestConnection(c, resp)
    \/ CallReturn

SpecClient == InitCall /\ [][NextClient]_vars

\* ------------------------------------- the configuration's functions, one by one
\* Configured poll rates (u64): the clamp's boundaries, their neighbours, 0
\* and a large value.
PollRates == {0, 1, 4, 5, 6, 60, 3599, 3600, 3601, 2147483647}

\* u8 values: priorities and urgency thresholds.
Bytes == 0..255

\* Server URLs without path.
Hosts ==
    {<<"h">>,
     <<"h", "t", "t", "p", ":", "/", "/", "h">>,
     <<"h", "t", "t", "p", ":", "/", "/", "h", ":", "8", "0">>,
     <<"h", "t", "t", "p", ":", "/", "/", "a", "p", "p">>}

\* What the settings page leaves after the host.
UrlSuffixes ==
    {<< >>, <<"/">>, <<"/", "a", "p", "p">>, <<"/", "a", "p", "p", "/">>,
     <<"/", "/", "a", "p", "p">>, <<"/", "a", "p", "p", "/", "a", "p", "p">>}

\* cfg.effective_poll_rate() for a configured rate, with the since value and
\* the sleep start_polling derives from it.
CallEffectivePollRate(rate) ==
    /\ call = None
    /\ LET cfg == [config EXCEPT !.poll_rate = rate]
       IN  call' = Some([fn |-> "effective_poll_rate", arg |-> rate,
                         rate |-> effective_poll_rate(cfg),
                         since |-> PollRequest(client, Snapshot(cfg).topics_path,
                                               Snapshot(cfg).poll_rate).since,
                         sleep |-> SleepInterval(cfg)])
    /\ UNCHANGED <<t_client, t_given, t_req, notifyVars, configVars, is_polling,
                   client, loopVars>>

\* The urgency flag of the NotificationData start_polling builds for a
\* message of the given priority under the given threshold.
CallUrgency(priority, threshold) ==
    /\ call = None
    /\ LET cfg == [config EXCEPT !.urgent_priority_threshold = threshold]
           msg == Message(Some("m1"), Some("message"), priority, None, None, None, None)
       IN  call' = Some([fn |-> "urgent",
                         arg |-> [priority |-> priority, threshold |-> threshold],
                         urgent |-> NotificationDataOf(msg, Snapshot(cfg)).urgent])
    /\ UNCHANGED <<t_client, t_given, t_req, notifyVars, configVars, is_polling,
                   client, loopVars>>

\* cfg.should_persist_notification(is_urgent)
CallShouldPersist(mode, is_urgent) ==
    /\ call = None
    /\ LET cfg == [config EXCEPT !.persistent_notifications_mode = mode]
       IN  call' = Some([fn |-> "should_persist_notification",
                         arg |-> [mode |-> mode, urgent |-> is_urgent],
                         persistent |-> should_persist_notification(cfg, is_urgent)])
    /\ UNCHANGED <<t_client, t_given, t_req, notifyVars, configVars, is_polling,
                   client, loopVars>>

\* cfg.notification_sound_for(is_urgent)
CallSoundFor(regular, urgent_sound, is_urgent) ==
    /\ call = None
    /\ LET cfg == [config EXCEPT !.notification_sound = regular,
                                 !.urgent_notification_sound = urgent_sound]
       IN  call' = Some([fn |-> "notification_sound_for",
                         arg |-> [regular |-> regular, urgent_sound |-> urgent_sound,
                                  urgent |-> is_urgent],
                         sound |-> notification_sound_for(cfg, is_urgent)])
    /\ UNCHANGED <<t_client, t_given, t_req, notifyVars, configVars, is_polling,
                   client, loopVars>>

\* cfg.api_base_url() for the instance URL host \o suffix.
CallApiBaseUrl(host, suffix) ==
    /\ call = None
    /\ LET cfg == [config EXCEPT !.instance_url = host \o suffix]
       IN  call' = Some([fn |-> "api_base_url",
                         arg |-> [host |-> host, suffix |-> suffix],
                         base_url |-> api_base_url(cfg),
                         twice |-> api_base_url(
                            [cfg EXCEPT !.instance_url = api_base_url(cfg)])])
    /\ UNCHANGED <<t_client, t_given, t_req, notifyVars, configVars, is_polling,
                   client, loopVars>>

\* NtfyClient::new(host \o suffix)
CallNtfyClientNew(host, suffix) ==
    /\ call = None
    /\ call' = Some([fn |-> "NtfyClient::new",
                     arg |-> [host |-> host, suffix |-> suffix],
                     base_url |-> NtfyClient_new(host \o suffix).base_url])
    /\ UNCHANGED <<t_client, t_given, t_req, notifyVars, configVars, is_polling,
                   client, loopVars>>

\* The characters of the topic strings: letters, the separator, whitespace.
TopicChars == {"a", "b", ",", " ", "\t"}

\* cfg.topics_list() and cfg.topics_path() for a topic string, and
\* topics_path of a configuration whose topic string is that path.
CallTopicsPath(topics) ==
    /\ call = None
    /\ LET cfg == [config EXCEPT !.topics = topics]
       IN  call' = Some([fn |-> "topics_path", arg |-> topics,
                         list |-> topics_list(cfg), path |-> topics_path(cfg),
                         again |-> topics_path([cfg EXCEPT !.topics = topics_path(cfg)])])
    /\ UNCHANGED <<t_client, t_given, t_req, notifyVars, configVars, is_polling,
                   client, loopVars>>

\* Values of the fields the model does not read otherwise.
OtherFieldsPool ==
    {DefaultOtherFields,
     [datetime_format |-> "", persistent_notifications |-> TRUE,
      self_hosted_instance |-> TRUE, start_hidden |-> TRUE, quit_on_close |-> TRUE,
      hotkeys_enabled |-> TRUE, dev_tools |-> TRUE, welcome_completed |-> TRUE],
     [DefaultOtherFields EXCEPT !.datetime_format = "MM/DD/YYYY HH:mm",
                                !.start_hidden = TRUE, !.dev_tools = TRUE]}

\* serde_json::to_string(&config) and serde_json::from_str of its output.
CallSerialize(cfg, other) ==
    /\ call = None
    /\ call' = Some([fn |-> "serialize", arg |-> [config |-> cfg, other |-> other],
                     json |-> Serialize(cfg, other),
                     back |-> Deserialize(Serialize(cfg, other))])
    /\ UNCHANGED <<t_client, t_given, t_req, notifyVars, configVars, is_polling,
                   client, loopVars>>

\* The derivation start_polling writes inline for one message, next to what
\* the two AppConfig methods give for the same configuration and urgency.
CallDerive(mode, regular, urgent_sound, threshold, msg) ==
    /\ call = None
    /\ LET cfg == [config EXCEPT !.persistent_notifications_mode = mode,
                                 !.notification_sound = regular,
                                 !.urgent_notification_sound = urgent_sound,
                                 !.urgent_priority_threshold = threshold]
           data == NotificationDataOf(msg, Snapshot(cfg))
       IN  call' = Some([fn |-> "derive",
                         arg |-> [mode |-> mode, regular |-> regular,
                                  urgent_sound |-> urgent_sound,
                                  threshold |-> threshold, msg |-> msg],
                         data |-> data,
                         method_persist |->
                            should_persist_notification(cfg, data.urgent),
                         method_sound |-> notification_sound_for(cfg, data.urgent)])
    /\ UNCHANGED <<t_client, t_given, t_req, notifyVars, configVars, is_polling,
                   client, loopVars>>

NextConfig ==
    \/ /\ call = None
       /\ \E rate \in PollRates : CallEffectivePollRate(rate)
    \/ /\ call = None
       /\ \E priority \in {None} \cup {Some(b) : b \in Bytes}, threshold \in Bytes :
             CallUrgency(priority, threshold)
    \/ /\ call = None
       /\ \E mode \in {"Off", "All", "UrgentOnly"}, u \in BOOLEAN :
             CallShouldPersist(mode, u)
    \/ /\ call = None
       /\ \E mode \in {"Off", "All", "UrgentOnly"}, r \in Sounds, us \in Sounds,
             th \in 1..5, m \in MsgPool :
             CallDerive(mode, r, us, th, m)
    \/ /\ call = None
       /\ \E r \in Sounds, us \in Sounds, u \in BOOLEAN : CallSoundFor(r, us, u)
    \/ /\ call = None
       /\ \E h \in Hosts, x \in UrlSuffixes : CallApiBaseUrl(h, x)
    \/ /\ call = None
       /\ \E h \in Hosts, x \in UrlSuffixes : CallNtfyClientNew(h, x)
    \/ /\ call = None
       /\ \E c \in ConfigPool \cup {DefaultConfig}, t \in Tokens, u \in Users,
             p \in Passes, o \in OtherFieldsPool :
             CallSerialize([c EXCEPT !.api_token = t, !.auth_user = u,
                                     !.auth_pass = p], o)
    \/ /\ call = None
       /\ \E topics \in SeqsUpTo(TopicChars, MaxChars) : CallTopicsPath(topics)
    \/ CallReturn

SpecConfig == InitCall /\ [][NextConfig]_vars

\* ======================================================================
\* Properties
\* ======================================================================
EventsOf(l, type) ==
    {i \in 1..Len(cycle_events[l]) : cycle_events[l][i].type = type}

\* C1: between two clears of seen_ids (and between loop start and the first
\* clear) no message id is dispatched as a notification more than once,
\* whether it recurs inside one batch or in a later poll.
C1_AtMostOncePerEpoch ==
    \A l \in Loops :
        \A i, j \in 1..Len(epoch_log[l]) :
            epoch_log[l][i] = epoch_log[l][j] => i = j

\* C1 witness: a later poll of the same epoch returned an id that an earlier
\* poll had delivered, and the message loop skipped it.
C1_Witness ==
    /\ pc[1] = "release"
    /\ \E j \in EventsOf(1, "skip") :
          /\ IsSome(cycle_events[1][j].msg.id)
          /\ \E k \in 1..Len(epoch_log[1]) :
                epoch_log[1][k] = Unwrap(cycle_events[1][j].msg.id)
          /\ \A i \in EventsOf(1, "dispatch") :
                cycle_events[1][i].msg.id # cycle_events[1][j].msg.id

\* C2: a polled message without an id is never dispatched, never added to
\* seen_ids, never counted in new_count and never emitted as a
\* new-notification event.
C2_NoIdNeverDelivered ==
    \A l \in Loops :
        /\ \A i \in 1..Len(cycle_events[l]) :
              cycle_events[l][i].type \in {"dispatch", "new-notification"}
                 => IsSome(cycle_events[l][i].msg.id)
        /\ seen_ids[l] \subseteq MsgIds
        /\ \A i \in 1..Len(epoch_log[l]) : epoch_log[l][i] \in MsgIds
        /\ pc[l] \in {"process", "release"} =>
              new_count[l] =
                 Cardinality({i \in EventsOf(l, "dispatch") :
                                 IsSome(cycle_events[l][i].msg.id)})

\* C2 witness: a cycle whose batch held a message without id next to a
\* delivered one has finished its message loop.
C2_Witness ==
    /\ pc[1] = "release"
    /\ \E i \in EventsOf(1, "skip") : cycle_events[1][i].msg.id = None
    /\ EventsOf(1, "dispatch") # {}

\* The part of a cycle between guard acquisition and guard release.
InCycle == {"cfg_lock", "cfg_read", "update_client", "send", "in_flight",
            "process", "release"}

\* A loop that found the guard held only sleeps and retries.
GuardHeldStep(l) ==
    /\ pc[l] = "guard" /\ is_polling /\ pc'[l] # "guard" =>
          /\ pc'[l] = "guard_sleep"
          /\ sleep_dur'[l] = 1
          /\ snap'[l] = snap[l] /\ req'[l] = req[l]
          /\ cfg_lock' = cfg_lock /\ config' = config
    /\ pc[l] = "guard_sleep" /\ pc'[l] # "guard_sleep" =>
          /\ pc'[l] = "guard"
          /\ elapsed'[l] >= Min(elapsed[l] + 1, CLEANUP_INTERVAL + 1)
          /\ snap'[l] = snap[l] /\ req'[l] = req[l]
          /\ cfg_lock' = cfg_lock

\* C3: with several start_polling loops sharing one is_polling flag, at most
\* one loop is between guard acquisition and guard release at any instant; a
\* loop that finds the guard held reads no configuration and sends no
\* request in that iteration, and waits one second before it retries.
C3_GuardExcludes ==
    /\ [](/\ Cardinality({l \in Loops : pc[l] \in InCycle}) <= 1
          /\ Cardinality({l \in Loops : req[l] # None}) <= 1
          /\ \A l \in Loops : pc[l] \in InCycle => is_polling
          /\ \A l \in Loops :
                pc[l] = "guard_sleep" =>
                   /\ sleep_dur[l] = 1 /\ req[l] = None
                   /\ cfg_lock # LockedByLoop(l))
    /\ [][\A l \in Loops : GuardHeldStep(l)]_vars

\* C3 witness: one loop has its request in flight while another one, having
\* found the guard held, sleeps its second.
C3_Witness ==
    \E l1, l2 \in Loops :
        /\ pc[l1] = "in_flight" /\ req[l1] # None
        /\ pc[l2] = "guard_sleep" /\ sleep_dur[l2] = 1

\* C4: the configuration lock is not held by the loop while its long-poll
\* request is in flight, so that save_config can acquire the lock then.
C4_LockFreeInFlight ==
    \A l \in Loops :
        pc[l] \in {"update_client", "send", "in_flight", "process", "release"} =>
            /\ cfg_lock # LockedByLoop(l)
            /\ save_pending = None =>
                  ENABLED (\E c \in ConfigPool : SaveConfigLock(c))

\* C4 witness: save_config holds the lock while the request is in flight.
C4_Witness ==
    /\ pc[1] = "in_flight" /\ req[1] # None
    /\ cfg_lock = LockedBySave

\* C5: in one poll cycle "badge-update" is emitted at most once, exactly when
\* at least one new message was delivered in the cycle, and its payload is
\* the number of messages delivered in the cycle.
C5_BadgeOncePerCycle ==
    \A l \in Loops :
        /\ Cardinality(EventsOf(l, "badge-update")) <= 1
        /\ \A i \in EventsOf(l, "badge-update") :
              /\ i = Len(cycle_events[l])
              /\ cycle_events[l][i].count =
                    Cardinality(EventsOf(l, "new-notification"))
              /\ cycle_events[l][i].count > 0
        /\ pc[l] = "release" /\ EventsOf(l, "new-notification") # {} =>
              EventsOf(l, "badge-update") # {}

\* C5 witness: a cycle delivered two messages, skipped none, and emitted
\* "badge-update" with payload 2.
C5_Witness ==
    /\ pc[1] = "release"
    /\ Cardinality(EventsOf(1, "new-notification")) = 2
    /\ \E i \in EventsOf(1, "badge-update") : cycle_events[1][i].count = 2

\* The outcomes of a failed poll.
PollErrors == {"Transport", "Unauthorized", "RateLimited", "Http"}

\* After an error the cycle ends like any other: the guard is released, the
\* rate re-read and the loop sleeps the clamped poll rate of the
\* configuration, whatever the number of failures before.
ErrorArmStep(l) ==
    /\ pc[l] = "in_flight" /\ pc'[l] # "in_flight" /\ poll_result'[l] \in PollErrors =>
          /\ pc'[l] = "release"
          /\ seen_ids'[l] = seen_ids[l] /\ cycle_events'[l] = << >>
    /\ pc[l] = "release" /\ pc'[l] # "release" =>
          pc'[l] = "rate_lock" /\ ~is_polling'
    /\ pc[l] = "rate_read" /\ pc'[l] # "rate_read" =>
          /\ pc'[l] = "sleep"
          /\ sleep_dur'[l] = Max(MIN_POLL_RATE, Min(config.poll_rate, MAX_POLL_RATE))
    /\ pc[l] = "sleep" /\ pc'[l] # "sleep" => pc'[l] = "guard"

\* C6: a failed poll (transport error, non-2xx status, body read failure)
\* never terminates the loop: the loop goes on to the normal sleep interval,
\* without backoff growth, and starts another cycle, which polls again
\* unless the topic list has been emptied.
C6_FailedPollContinues ==
    /\ [][\A l \in Loops : ErrorArmStep(l)]_vars
    /\ \A e \in PollErrors :
          (pc[1] = "release" /\ poll_result[1] = e)
             ~> (pc[1] = "sleep" /\ poll_result[1] = e)
    /\ \A e \in PollErrors :
          (pc[1] = "sleep" /\ poll_result[1] = e)
             ~> (pc[1] \in {"in_flight", "empty_sleep"})

\* C6 witness: the poll before failed with a body read or transport error,
\* and the request of the next cycle is in flight.
C6_Witness ==
    /\ pc[1] = "in_flight" /\ req[1] # None
    /\ poll_result[1] = "Transport"

\* The messages the message loop has gone through, in order.
Processed(l) ==
    LET idx == {i \in 1..Len(cycle_events[l]) :
                   cycle_events[l][i].type \in {"dispatch", "skip"}}
        RECURSIVE take(_)
        take(n) == IF n = 0 THEN << >>
                   ELSE LET earlier == take(n - 1)
                        IN  IF n \in idx
                            THEN Append(earlier, cycle_events[l][n].msg)
                            ELSE earlier
    IN  take(Len(cycle_events[l]))

\* C7: show_notification_full reports success for every outcome of the
\* platform dispatch, so that in start_polling a failed notification stops
\* neither the remaining messages of the batch, nor the event emission, nor
\* the cycle: every dispatch is followed by its "new-notification" event, the
\* whole batch is gone through, and the badge is emitted before the release.
C7_DispatchNeverFails ==
    \A l \in Loops :
        /\ \A i \in EventsOf(l, "dispatch") :
              /\ cycle_events[l][i].result = "Ok"
              /\ i < Len(cycle_events[l])
              /\ cycle_events[l][i + 1].type = "new-notification"
              /\ cycle_events[l][i + 1].msg = cycle_events[l][i].msg
        /\ pc[l] = "process" => Processed(l) \o msgs[l] = batch[l]
        /\ pc[l] = "release" /\ poll_result[l] = "Ok" =>
              /\ Processed(l) = batch[l]
              /\ EventsOf(l, "dispatch") # {} => EventsOf(l, "badge-update") # {}

\* C7 witness: on Windows the first notification of a batch was not shown
\* (helper and library both failed), the second message was dispatched all
\* the same and the cycle reached its end with the badge emitted.
C7_Witness ==
    /\ platform = "windows"
    /\ pc[1] = "release"
    /\ Len(cycle_events[1]) = 5
    /\ cycle_events[1][1].type = "dispatch" /\ ~cycle_events[1][1].shown
    /\ cycle_events[1][3].type = "dispatch"
    /\ cycle_events[1][5].type = "badge-update"

\* The get_cached_icon_path calls of the last show_notification_full call.
LastCalls == IF last = NoDispatch THEN << >> ELSE Unwrap(last).out.calls

\* C8: a request for a URL with no cache file performs one download and
\* (the download succeeding) writes the cache file; a request while the
\* file's age is under 7 days returns the cached path with no network call;
\* once the age has reached 604800 s the next request downloads again and
\* rewrites the file, after which requests hit the cache again.
C8_IconCacheTtl ==
    \A i \in 1..Len(LastCalls) :
        LET c == LastCalls[i]
            hit == /\ c.downloads = 0 /\ ~c.wrote
                   /\ c.path = Some(CachePath(c.url))
                   /\ c.cache = [c.cache EXCEPT ![c.url] = c.age]
            stale == c.age = NoFile \/ c.age >= 604800
        IN  /\ c.age # NoFile /\ c.age < 604800 => hit
            /\ stale /\ c.o.fs = "ok" /\ c.o.net # "client_fail" => c.downloads = 1
            /\ stale /\ c.o.fs = "ok" /\ c.o.net = "ok" =>
                  /\ c.wrote
                  /\ c.path = Some(CachePath(c.url))
                  /\ c.cache[c.url] = 0
            /\ c.wrote => c.downloads = 1 /\ c.o.net = "ok" /\ stale
            /\ i > 1 /\ LastCalls[i - 1].wrote => c.age = 0 /\ hit

\* C8 witness: the cache file was exactly 604800 s old; the request
\* downloaded and rewrote it, and the next request for the same URL (the
\* library fallback of the same dispatch) hit the cache.
C8_Witness ==
    /\ Len(LastCalls) = 2
    /\ LastCalls[1].age = 604800
    /\ LastCalls[1].downloads = 1 /\ LastCalls[1].wrote
    /\ LastCalls[2].url = LastCalls[1].url
    /\ LastCalls[2].downloads = 0
    /\ LastCalls[2].path = Some(CachePath(LastCalls[1].url))

\* C9 (the claim as stated): when the icon download returns a non-2xx status
\* or fails at transport level, the notification is still dispatched and its
\* icon is the local bundled icon, the first existing candidate, on the
\* helper path and on the library fallback path alike.
C9_LocalIconOnDownloadFailure ==
    last # NoDispatch =>
        LET d == Unwrap(last)
            n == Len(d.out.calls)
        IN  n > 0 /\ d.out.calls[n].downloads = 1
                  /\ d.out.calls[n].o.net \in {"http_error", "transport"} =>
               /\ d.out.result = "Ok"
               /\ d.out.attempts # << >>
               /\ d.out.icon = find_icon_path(local_icons)

\* C9 witness: the external helper showed the notification after the icon
\* download had failed, with the local bundled icon.
C9_Witness ==
    /\ last # NoDispatch
    /\ Unwrap(last).out.attempts = <<"helper">>
    /\ Len(Unwrap(last).out.calls) = 1
    /\ Unwrap(last).out.calls[1].o.net = "http_error"
    /\ Unwrap(last).out.icon = Some([dir |-> "local", name |-> "exe/icons/32x32.png"])

\* The Authorization headers the configured credentials call for.
ExpectedAuth(g) ==
    IF g.api_token # ""
    THEN <<[scheme |-> "Bearer", cred |-> g.api_token, pass |-> ""]>>
    ELSE IF g.auth_user # ""
         THEN <<[scheme |-> "Basic", cred |-> g.auth_user, pass |-> g.auth_pass]>>
         ELSE << >>

\* C10: every request carries exactly one of a Bearer token header (a token
\* is set), HTTP Basic auth (no token, a user is set) or no Authorization
\* header; the token wins over the user, and an empty token or user counts
\* as not set for with_token, with_basic_auth and the per-cycle update, so
\* that a password without a user yields no auth.
C10_OneAuthScheme ==
    /\ t_client.api_token # Some("") /\ t_client.auth_user # Some("")
    /\ t_req # None =>
          /\ Len(Unwrap(t_req).auth) <= 1
          /\ Unwrap(t_req).auth = ExpectedAuth(Unwrap(t_req).given)

\* C10 witness: a request of a client configured with a token and a user
\* carries the Bearer header only.
C10_Witness ==
    /\ t_req # None
    /\ Unwrap(t_req).given = Given("tok", "usr", "pw")
    /\ Unwrap(t_req).client.api_token = Some("tok")
    /\ Unwrap(t_req).client.auth_user = Some("usr")
    /\ Unwrap(t_req).auth = <<[scheme |-> "Bearer", cred |-> "tok", pass |-> ""]>>

\* The call in progress, when it is a call of fn.
CallOf(fn) == call # None /\ Unwrap(call).fn = fn

\* The lines of a body that parse as a JSON object with event "message".
IsMessageLine(line) == line.kind = "json" /\ line.msg.event = Some("message")

\* C11: poll_messages returns exactly the parsed lines whose event field
\* equals "message": a line with another event value or with no event field
\* is dropped, so that it reaches neither deduplication nor dispatch (the
\* message loop gets the returned list only).
C11_OnlyMessageEvents ==
    CallOf("poll_messages") =>
        LET c == Unwrap(call)
            kept == {i \in 1..Len(c.arg.body) : IsMessageLine(c.arg.body[i])}
        IN  /\ \A i \in 1..Len(c.out.messages) :
                  c.out.messages[i].event = Some("message")
            /\ c.out.ok => Len(c.out.messages) = Cardinality(kept)
            /\ c.out.ok =>
                  \A i \in kept :
                     \E j \in 1..Len(c.out.messages) :
                        c.out.messages[j] = c.arg.body[i].msg

\* C11 witness: a body with an "open" line and a line without event field
\* gave an empty list.
C11_Witness ==
    /\ CallOf("poll_messages")
    /\ Len(Unwrap(call).arg.body) = 2
    /\ Unwrap(call).arg.body[1].kind = "json"
    /\ Unwrap(call).arg.body[1].msg.event = Some("open")
    /\ Unwrap(call).arg.body[2].kind = "json"
    /\ Unwrap(call).arg.body[2].msg.event = None
    /\ Unwrap(call).out.ok
    /\ Unwrap(call).out.messages = << >>

\* C12: each non-blank line of a 2xx body is parsed on its own: a line that
\* fails to parse is skipped, the other lines with event "message" are
\* returned in body order, and a malformed line never makes the result an
\* error.
C12_MalformedLineSkipped ==
    CallOf("poll_messages") =>
        LET c == Unwrap(call)
        IN  c.arg.kind = "http" /\ IsSuccess(c.arg.status) /\ c.arg.body_ok =>
               /\ c.out.ok
               /\ LET good == SelectSeq(c.arg.body, IsMessageLine)
                  IN  c.out.messages = [i \in 1..Len(good) |-> good[i].msg]

\* C12 witness: the first line of the body did not parse, the second one was
\* returned.
C12_Witness ==
    /\ CallOf("poll_messages")
    /\ Len(Unwrap(call).arg.body) = 2
    /\ Unwrap(call).arg.body[1].kind = "bad"
    /\ IsMessageLine(Unwrap(call).arg.body[2])
    /\ Unwrap(call).out.ok
    /\ Unwrap(call).out.messages = <<Unwrap(call).arg.body[2].msg>>

\* C13: poll_messages maps the outcome of the request to its result: 401
\* gives the unauthorized error, 429 the rate-limited error, every other
\* non-2xx status the generic HTTP error, a transport failure a connection
\* error, and only a 2xx status yields a message list; no message comes
\* together with an error.
C13_StatusMapping ==
    CallOf("poll_messages") =>
        LET c == Unwrap(call)
            r == c.arg
        IN  /\ r.kind = "transport" => ~c.out.ok /\ c.out.err = "Transport"
            /\ r.kind = "http" /\ r.status = 401 =>
                  ~c.out.ok /\ c.out.err = "Unauthorized"
            /\ r.kind = "http" /\ r.status = 429 =>
                  ~c.out.ok /\ c.out.err = "RateLimited"
            /\ r.kind = "http" /\ r.status \notin {401, 429}
                  /\ (r.status < 200 \/ r.status > 299) =>
                  ~c.out.ok /\ c.out.err = "Http"
            /\ c.out.ok => r.kind = "http" /\ r.status >= 200 /\ r.status <= 299
            /\ ~c.out.ok => c.out.messages = << >> /\ c.out.err # ""
            /\ c.out.ok => c.out.err = ""

\* C13 witness: a 429 answer gave the rate-limited error.
C13_Witness ==
    /\ CallOf("poll_messages")
    /\ Unwrap(call).arg.status = 429
    /\ Unwrap(call).out.err = "RateLimited"

\* C20: test_connection yields true exactly when the response status is 2xx
\* and signals failure for every other status and every transport error; its
\* request carries the authentication poll_messages would apply, and since=0.
C20_TestConnection ==
    CallOf("test_connection") =>
        LET c == Unwrap(call)
            r == c.arg
        IN  /\ c.out.ok <=> (r.kind = "http" /\ r.status >= 200 /\ r.status <= 299)
            /\ c.out.ok => c.out.value = TRUE
            /\ ~c.out.ok => c.out.err # ""
            /\ c.req.auth = PollRequest(c.client, <<"t">>, 60).auth
            /\ c.req.auth = ExpectedAuth(
                   [api_token |-> UnwrapOr(c.client.api_token, ""),
                    auth_user |-> UnwrapOr(c.client.auth_user, ""),
                    auth_pass |-> UnwrapOr(c.client.auth_pass, "")])
            /\ c.req.since = 0

\* C20 witness: a client with a user and a password met a 304 answer and
\* test_connection signalled failure.
C20_Witness ==
    /\ CallOf("test_connection")
    /\ Unwrap(call).arg.status = 304
    /\ ~Unwrap(call).out.ok
    /\ Unwrap(call).req.auth = <<[scheme |-> "Basic", cred |-> "usr", pass |-> "pw"]>>

\* C14: for every configured poll rate R, 0 included, effective_poll_rate
\* returns clamp(R, 5, 3600): 5 for R < 5, 3600 for R > 3600, R otherwise;
\* the since value sent to the server and the inter-cycle sleep are therefore
\* within [5, 3600].
C14_PollRateClamped ==
    CallOf("effective_poll_rate") =>
        LET c == Unwrap(call)
        IN  /\ c.arg < 5 => c.rate = 5
            /\ c.arg > 3600 => c.rate = 3600
            /\ c.arg >= 5 /\ c.arg <= 3600 => c.rate = c.arg
            /\ c.since >= 5 /\ c.since <= 3600
            /\ c.sleep >= 5 /\ c.sleep <= 3600

\* C14 witness: a configured rate of 0 gave 5 for the rate, the since value
\* and the sleep.
C14_Witness ==
    /\ CallOf("effective_poll_rate")
    /\ Unwrap(call).arg = 0
    /\ Unwrap(call).rate = 5 /\ Unwrap(call).since = 5 /\ Unwrap(call).sleep = 5

\* C15: for every priority and every threshold in 0..255 the urgency flag
\* start_polling computes is (priority, or 3 without priority) >= threshold;
\* a message without priority is urgent exactly when the threshold is at
\* most 3.
C15_UrgencyThreshold ==
    CallOf("urgent") =>
        LET c == Unwrap(call)
            p == c.arg.priority
            t == c.arg.threshold
        IN  /\ p # None => (c.urgent <=> p[1] >= t)
            /\ p = None => (c.urgent <=> t <= 3)

\* C15 witness: a message without priority under threshold 3 is urgent.
C15_Witness ==
    /\ CallOf("urgent")
    /\ Unwrap(call).arg = [priority |-> None, threshold |-> 3]
    /\ Unwrap(call).urgent = TRUE

\* C16: should_persist_notification is false for mode Off and true for mode
\* All whatever the urgency, and the urgency flag itself for UrgentOnly.
C16_PersistTruthTable ==
    CallOf("should_persist_notification") =>
        LET c == Unwrap(call)
        IN  /\ c.arg.mode = "Off" => c.persistent = FALSE
            /\ c.arg.mode = "All" => c.persistent = TRUE
            /\ c.arg.mode = "UrgentOnly" => c.persistent = c.arg.urgent

\* C16 witness: mode UrgentOnly with a message that is not urgent gave false.
C16_Witness ==
    /\ CallOf("should_persist_notification")
    /\ Unwrap(call).arg = [mode |-> "UrgentOnly", urgent |-> FALSE]
    /\ Unwrap(call).persistent = FALSE

\* C17: notification_sound_for returns the regular sound when urgent is
\* false and the urgent sound when it is true, for every pair of configured
\* sounds, equal ones and None included.
C17_SoundSelection ==
    CallOf("notification_sound_for") =>
        LET c == Unwrap(call)
        IN  /\ ~c.arg.urgent => c.sound = c.arg.regular
            /\ c.arg.urgent => c.sound = c.arg.urgent_sound

\* C17 witness: regular sound None, urgent sound Bell, an urgent message:
\* Bell.
C17_Witness ==
    /\ CallOf("notification_sound_for")
    /\ Unwrap(call).arg = [regular |-> "None", urgent_sound |-> "Bell", urgent |-> TRUE]
    /\ Unwrap(call).sound = "Bell"

\* Whether p is an initial segment of s.
IsPrefix(p, s) == Len(p) <= Len(s) /\ SubSeq(s, 1, Len(p)) = p

\* C18 (the claim as stated): for every host h, api_base_url yields h for the
\* inputs h/app, h/app/ and h, and never appends anything to its input.
C18_BaseUrlNormalised ==
    CallOf("api_base_url") =>
        LET c == Unwrap(call)
        IN  /\ c.arg.suffix \in {<< >>, <<"/", "a", "p", "p">>,
                                 <<"/", "a", "p", "p", "/">>} =>
                  c.base_url = c.arg.host
            /\ IsPrefix(c.base_url, c.arg.host \o c.arg.suffix)

\* C18 witness: http://h:80/app/ gave http://h:80.
C18_Witness ==
    /\ CallOf("api_base_url")
    /\ Unwrap(call).arg.host = <<"h", "t", "t", "p", ":", "/", "/", "h", ":", "8", "0">>
    /\ Unwrap(call).arg.suffix = <<"/", "a", "p", "p", "/">>
    /\ Unwrap(call).base_url = Unwrap(call).arg.host

\* C19 (the claim as stated): NtfyClient::new removes a trailing slash and a
\* trailing /app segment: new(h/app), new(h/app/) and new(h) store h.
C19_ClientUrlNormalised ==
    CallOf("NtfyClient::new") =>
        LET c == Unwrap(call)
        IN  c.arg.suffix \in {<< >>, <<"/", "a", "p", "p">>,
                              <<"/", "a", "p", "p", "/">>} =>
               c.base_url = c.arg.host

\* C19 witness: new(http://h/) stored http://h.
C19_Witness ==
    /\ CallOf("NtfyClient::new")
    /\ Unwrap(call).arg.host = <<"h", "t", "t", "p", ":", "/", "/", "h">>
    /\ Unwrap(call).arg.suffix = <<"/">>
    /\ Unwrap(call).base_url = Unwrap(call).arg.host

\* C21: every message that passes deduplication gets exactly one
\* "new-notification" event carrying the raw message, right after its
\* dispatch attempt and before the cycle's "badge-update"; messages dropped
\* by the event filter, the missing-id rule or deduplication get none, so
\* the number of "new-notification" events of a cycle is the badge count.
C21_OneEventPerDelivered ==
    \A l \in Loops :
        LET ev == cycle_events[l]
            news == EventsOf(l, "new-notification")
        IN  /\ \A i \in news :
                  /\ i > 1 /\ ev[i - 1].type = "dispatch"
                  /\ ev[i - 1].msg = ev[i].msg
                  /\ ev[i].msg.event = Some("message")
                  /\ IsSome(ev[i].msg.id)
                  /\ \A b \in EventsOf(l, "badge-update") : i < b
                  /\ \A j \in news : ev[j].msg.id = ev[i].msg.id => j = i
            /\ \A i \in EventsOf(l, "dispatch") :
                  i < Len(ev) /\ ev[i + 1].type = "new-notification"
            /\ \A i \in EventsOf(l, "skip") :
                  /\ i < Len(ev) => ev[i + 1].type # "new-notification"
                  /\ \/ ev[i].msg.id = None
                     \/ Unwrap(ev[i].msg.id) \in seen_ids[l]
            /\ Cardinality(news) = new_count[l]
            /\ \A b \in EventsOf(l, "badge-update") :
                  ev[b].count = Cardinality(news)
            /\ pc[l] = "release" /\ poll_result[l] = "Ok" =>
                  /\ Cardinality(news) + Cardinality(EventsOf(l, "skip")) = Len(batch[l])
                  /\ news # {} => EventsOf(l, "badge-update") # {}

\* C21 witness: a batch of two lines with the same id: the first was
\* dispatched and announced, the second dropped by deduplication, and the
\* badge count is 1.
C21_Witness ==
    /\ pc[1] = "release"
    /\ Len(cycle_events[1]) = 4
    /\ cycle_events[1][1].type = "dispatch"
    /\ cycle_events[1][2].type = "new-notification"
    /\ cycle_events[1][3].type = "skip"
    /\ cycle_events[1][3].msg.id = cycle_events[1][1].msg.id
    /\ cycle_events[1][4].type = "badge-update" /\ cycle_events[1][4].count = 1

\* The names of the three credential fields.
CredentialKeys == {"api_token", "auth_user", "auth_pass"}

\* C22: serialising an AppConfig emits none of api_token, auth_user and
\* auth_pass, neither the key nor the value (the output is that of the same
\* configuration with blank credentials, and no emitted value is a non-blank
\* credential), and deserialising the output gives back every other field
\* with the three credentials empty.
C22_CredentialsNotSerialised ==
    CallOf("serialize") =>
        LET c == Unwrap(call)
            cfg == c.arg.config
            blank == [cfg EXCEPT !.api_token = "", !.auth_user = "", !.auth_pass = ""]
        IN  /\ DOMAIN c.json \cap CredentialKeys = {}
            /\ c.json = Serialize(blank, c.arg.other)
            /\ \A k \in {"datetime_format", "notification_sound",
                         "urgent_notification_sound",
                         "persistent_notifications_mode"} :
                  c.json[k] \notin ({cfg.api_token, cfg.auth_user, cfg.auth_pass} \ {""})
            /\ c.back.config = blank
            /\ c.back.other = c.arg.other

\* C22 witness: a configuration with token, user and password, none of the
\* other fields at its default, was serialised and read back without them.
C22_Witness ==
    /\ CallOf("serialize")
    /\ Unwrap(call).arg.config.api_token = "tok"
    /\ Unwrap(call).arg.config.auth_user = "usr"
    /\ Unwrap(call).arg.config.auth_pass = "pw"
    /\ Unwrap(call).arg.config.persistent_notifications_mode = "UrgentOnly"
    /\ Unwrap(call).arg.other.welcome_completed
    /\ Unwrap(call).back.config.api_token = ""
    /\ Unwrap(call).back.config.persistent_notifications_mode = "UrgentOnly"

\* The segments of s between its commas, by position: the k-th one lies
\* between the (k-1)-th and the k-th comma.
CommaAt(s, k) ==
    IF k = 0 THEN 0
    ELSE IF k > Cardinality({i \in 1..Len(s) : s[i] = ","}) THEN Len(s) + 1
    ELSE CHOOSE i \in 1..Len(s) :
            s[i] = "," /\ Cardinality({j \in 1..i : s[j] = ","}) = k

SegmentCount(s) == Cardinality({i \in 1..Len(s) : s[i] = ","}) + 1

Segment(s, k) == SubSeq(s, CommaAt(s, k - 1) + 1, CommaAt(s, k) - 1)

\* s without its leading and trailing whitespace.
Stripped(s) ==
    LET ns == {i \in 1..Len(s) : ~IsSpace(s[i])}
    IN  IF ns = {} THEN << >>
        ELSE SubSeq(s, CHOOSE i \in ns : \A j \in ns : i <= j,
                       CHOOSE i \in ns : \A j \in ns : i >= j)

\* C23: topics_list is the comma-separated segments of the topic string,
\* each trimmed, the empty ones dropped, in order; topics_path is that list
\* joined with commas: no segment of it is empty or untrimmed, it is empty
\* exactly when every segment is blank, and topics_path of it is itself.
C23_TopicsNormalised ==
    CallOf("topics_path") =>
        LET c == Unwrap(call)
            kept == {k \in 1..SegmentCount(c.arg) : Stripped(Segment(c.arg, k)) # << >>}
            nth(n) == CHOOSE k \in kept : Cardinality({j \in kept : j < k}) = n - 1
        IN  /\ Len(c.list) = Cardinality(kept)
            /\ \A n \in 1..Len(c.list) :
                  c.list[n] = Stripped(Segment(c.arg, nth(n)))
            /\ c.list # << >> =>
                  /\ SegmentCount(c.path) = Len(c.list)
                  /\ \A n \in 1..Len(c.list) : Segment(c.path, n) = c.list[n]
                  /\ \A n \in 1..SegmentCount(c.path) :
                        LET g == Segment(c.path, n)
                        IN  g # << >> /\ ~IsSpace(g[1]) /\ ~IsSpace(g[Len(g)])
            /\ c.path = << >> <=> kept = {}
            /\ c.again = c.path

\* C23 witness: "a,, b" (an empty segment, a segment to trim) gave the
\* list a, b and the path "a,b".
C23_Witness ==
    /\ CallOf("topics_path")
    /\ Unwrap(call).arg = <<"a", ",", ",", " ", "b">>
    /\ Unwrap(call).list = << <<"a">>, <<"b">> >>
    /\ Unwrap(call).path = <<"a", ",", "b">>

\* C24: every acquisition of the is_polling guard is followed by its
\* release within the same cycle, on the empty-topics path, after a
\* successful poll and after a failed one: the guard is set exactly while
\* the loop is between the swap that acquired it and the store(false), never
\* during the 5 s or the inter-cycle sleep, and a guard that is held is
\* eventually released.
C24_GuardReleased ==
    /\ [](is_polling <=> pc[1] \in InCycle)
    /\ [](pc[1] \in {"empty_sleep", "rate_lock", "rate_read", "sleep"} => ~is_polling)
    /\ is_polling ~> ~is_polling
    /\ \A e \in PollErrors \cup {"Ok"} :
          (is_polling /\ pc[1] = "release" /\ poll_result[1] = e)
             ~> (~is_polling /\ pc[1] = "rate_lock" /\ poll_result[1] = e)
    /\ (is_polling /\ pc[1] = "cfg_read" /\ topics_path(config) = << >>)
          ~> (~is_polling /\ pc[1] = "empty_sleep")

\* C24 witness: the loop sleeps its poll interval after a failed poll, the
\* guard released.
C24_Witness ==
    /\ pc[1] = "sleep"
    /\ poll_result[1] = "Unauthorized"
    /\ ~is_polling

\* The short circuit of a cycle whose snapshot has no topic, step by step.
EmptyTopicsStep(l) ==
    /\ pc[l] = "cfg_read" /\ pc'[l] # "cfg_read" /\ topics_path(config) = << >> =>
          /\ pc'[l] = "empty_sleep" /\ sleep_dur'[l] = 5
          /\ ~is_polling'
          /\ req'[l] = None /\ sent' = sent
          /\ client' = client
          /\ seen_ids' = seen_ids /\ elapsed' = elapsed
          /\ cycle_events'[l] = << >>
    /\ pc[l] = "empty_sleep" /\ pc'[l] # "empty_sleep" =>
          /\ pc'[l] = "guard"
          /\ elapsed'[l] >= Min(elapsed[l] + 5, CLEANUP_INTERVAL + 1)
          /\ req'[l] = None /\ sent' = sent
          /\ client' = client
          /\ seen_ids' = seen_ids
          /\ cycle_events'[l] = << >>

\* C25: when the snapshot's topic path is empty the cycle makes no HTTP
\* request, releases the guard, leaves the client's base URL and credentials
\* and the seen-id set as they were, emits no event, and starts the next
\* cycle after 5 seconds.
C25_EmptyTopicsShortCircuit ==
    /\ [][\A l \in Loops : EmptyTopicsStep(l)]_vars
    /\ [](\A l \in Loops :
             pc[l] = "empty_sleep" =>
                /\ Unwrap(snap[l]).topics_path = << >>
                /\ sleep_dur[l] = 5 /\ ~is_polling
                /\ req[l] = None /\ cycle_events[l] = << >>)
    /\ [](\A l \in Loops :
             pc[l] \in {"update_client", "send", "in_flight"} =>
                Unwrap(snap[l]).topics_path # << >>)

\* C25 witness: the topics were emptied under a running loop: it sleeps its
\* 5 seconds with the ids it has seen and with the client of the earlier
\* configuration, token included.
C25_Witness ==
    /\ pc[1] = "empty_sleep"
    /\ seen_ids[1] # {}
    /\ client.api_token = Some("tok")
    /\ config.api_token = ""

\* The end of a completed cycle, step by step: the rate is read from the
\* configuration as it is under the lock at that moment.
RateReadStep(l) ==
    /\ pc[l] = "rate_read" /\ pc'[l] # "rate_read" =>
          /\ cfg_lock = LockedByLoop(l)
          /\ pc'[l] = "sleep"
          /\ sleep_dur'[l] = Max(5, Min(config.poll_rate, 3600))
    /\ pc[l] = "sleep" /\ pc'[l] # "sleep" =>
          /\ pc'[l] = "guard"
          /\ elapsed'[l] >= Min(elapsed[l] + sleep_dur[l], CLEANUP_INTERVAL + 1)

\* C26: after each completed cycle the loop sleeps for the effective poll
\* rate of the configuration as it is then, re-read under the lock after
\* the guard was released, not for the rate of the cycle's snapshot: a rate
\* saved while the poll was in flight determines the very next sleep.
C26_FreshRateForSleep ==
    /\ [][\A l \in Loops : RateReadStep(l)]_vars
    /\ [](pc[1] \in {"rate_lock", "rate_read"} => ~is_polling)
    /\ [](pc[1] = "sleep" => sleep_dur[1] >= 5 /\ sleep_dur[1] <= 3600)

\* C26 witness: the cycle polled with since=1800s and, the rate having been
\* changed to 3 meanwhile, sleeps 5 seconds.
C26_Witness ==
    /\ pc[1] = "sleep"
    /\ sent[1] # None /\ Unwrap(sent[1]).since = 1800
    /\ sleep_dur[1] = 5
    /\ config.poll_rate = 3

\* An Option<String> field of the client as the snapshot's string calls for.
SetOrUnset(str) == IF str = "" THEN None ELSE Some(str)

\* The snapshot is a copy of the configuration behind the lock at that
\* moment, which is the one the latest completed save_config stored.
SnapshotStep(l) ==
    /\ pc[l] = "cfg_read" /\ pc'[l] # "cfg_read" =>
          /\ cfg_lock = LockedByLoop(l) /\ save_pending = None
          /\ snap'[l] = Some(Snapshot(config))
    /\ save_pending # None /\ save_pending' = None =>
          config' = Unwrap(save_pending)

\* C27: the configuration save_config stored before a cycle takes its
\* snapshot is the one that cycle polls with: before every poll the
\* client's base URL, token, user and password are overwritten from the
\* snapshot, a token, user or password that became empty being unset, so
\* that the request carries the snapshot's credentials and nothing of an
\* earlier configuration.
C27_ClientFollowsConfig ==
    /\ [][\A l \in Loops : SnapshotStep(l)]_vars
    /\ [](\A l \in Loops :
             pc[l] \in {"send", "in_flight"} =>
                LET sn == Unwrap(snap[l])
                IN  /\ client.base_url = sn.base_url
                    /\ client.api_token = SetOrUnset(sn.api_token)
                    /\ client.auth_user = SetOrUnset(sn.auth_user)
                    /\ client.auth_pass = SetOrUnset(sn.auth_pass))
    /\ [](\A l \in Loops :
             req[l] # None =>
                LET sn == Unwrap(snap[l])
                    rq == Unwrap(req[l])
                IN  /\ rq.base = sn.base_url
                    /\ rq.path = sn.topics_path
                    /\ rq.since = sn.poll_rate
                    /\ rq.auth = ExpectedAuth([api_token |-> sn.api_token,
                                               auth_user |-> sn.auth_user,
                                               auth_pass |-> sn.auth_pass]))

\* C27 witness: the previous poll carried the Bearer token of the
\* configuration then in force; the token and the user were removed by a
\* save, and the request now in flight carries no Authorization header and
\* asks for the topics of the new configuration.
C27_Witness ==
    /\ pc[1] = "in_flight" /\ req[1] # None /\ sent[1] # None
    /\ Unwrap(sent[1]).auth = <<[scheme |-> "Bearer", cred |-> "tok", pass |-> ""]>>
    /\ Unwrap(req[1]).auth = << >>
    /\ client.api_token = None /\ client.auth_user = None /\ client.auth_pass = None
    /\ Unwrap(req[1]).path # Unwrap(sent[1]).path
    /\ Unwrap(req[1]).since # Unwrap(sent[1]).since

\* The ids dispatched in the current cycle of loop l.
CycleIds(l) ==
    {Unwrap(cycle_events[l][i].msg.id) : i \in EventsOf(l, "dispatch")}

\* What a step does to seen_ids and to the cleanup timer: the step after the
\* guard release clears the whole set and restarts the timer when more than
\* 3600 s have elapsed, and leaves both alone otherwise; every other step
\* can only add the id it delivers, and lets the timer run.
CleanupStep(l) ==
    /\ pc[l] = "release" /\ pc'[l] # "release" =>
          /\ pc'[l] = "rate_lock"
          /\ IF elapsed[l] > 3600
             THEN /\ seen_ids'[l] = {} /\ elapsed'[l] = 0
                  /\ forgotten'[l] = forgotten[l] \cup seen_ids[l]
             ELSE /\ seen_ids'[l] = seen_ids[l] /\ elapsed'[l] = elapsed[l]
                  /\ forgotten'[l] = forgotten[l]
    /\ pc[l] # "release" =>
          /\ seen_ids[l] \subseteq seen_ids'[l]
          /\ seen_ids'[l] # seen_ids[l] =>
                pc[l] = "process" /\ Cardinality(seen_ids'[l] \ seen_ids[l]) = 1
          /\ elapsed'[l] >= elapsed[l]
          /\ forgotten'[l] = forgotten[l]

\* C28: seen_ids is cleared as a whole at the end of a completed cycle when
\* more than 3600 s have elapsed since the previous cleanup or the loop
\* start, the timer restarting then; it is cleared at no other point (not at
\* exactly 3600 s, not on the empty-topics path), so that an epoch ends with
\* the first completed cycle that finishes more than 3600 s after the
\* previous cleanup.
C28_CleanupOfSeenIds ==
    /\ [][\A l \in Loops : CleanupStep(l)]_vars
    /\ [](\A l \in Loops :
             /\ seen_ids[l] = {epoch_log[l][i] : i \in 1..Len(epoch_log[l])}
             /\ pc[l] = "rate_lock" /\ elapsed[l] = 0 /\ forgotten[l] # {} =>
                   seen_ids[l] = {})

\* C28 witness: a cleanup has just removed two ids at once.
C28_Witness ==
    /\ pc[1] = "rate_lock"
    /\ poll_result[1] = "Ok"
    /\ elapsed[1] = 0
    /\ seen_ids[1] = {}
    /\ forgotten[1] = {"m1", "m2"}

\* A message whose id a cleanup has removed, and which was not delivered
\* since the last cleanup, is delivered when the message loop comes to it.
RedeliveryStep(l) ==
    /\ (/\ pc[l] = "process" /\ msgs[l] # << >> /\ IsSome(Head(msgs[l]).id)
        /\ Unwrap(Head(msgs[l]).id) \in forgotten[l]
        /\ \A i \in 1..Len(epoch_log[l]) : epoch_log[l][i] # Unwrap(Head(msgs[l]).id)
        /\ msgs'[l] # msgs[l]) =>
          /\ epoch_log'[l] = Append(epoch_log[l], Unwrap(Head(msgs[l]).id))
          /\ Len(cycle_events'[l]) = Len(cycle_events[l]) + 2
          /\ cycle_events'[l][Len(cycle_events[l]) + 1].type = "dispatch"
          /\ cycle_events'[l][Len(cycle_events[l]) + 1].msg = Head(msgs[l])
    /\ pc[l] = "release" /\ pc'[l] # "release" /\ elapsed[l] > 3600 =>
          /\ seen_ids'[l] = {}
          /\ CycleIds(l) \subseteq forgotten'[l]

\* C29: an id that was delivered before a cleanup of seen_ids is delivered
\* again when a poll after that cleanup returns it: the cleanup forgets every
\* id, those inserted in the cycle that triggered it included.
C29_RedeliveryAfterCleanup ==
    [][\A l \in Loops : RedeliveryStep(l)]_vars

\* C29 witness: the id m1, removed from seen_ids by a cleanup, was dispatched
\* again in the current cycle.
C29_Witness ==
    /\ pc[1] = "release"
    /\ "m1" \in forgotten[1]
    /\ "m1" \in CycleIds(1)

\* C30: on Windows the library fallback is invoked exactly when the helper
\* executable is not found, cannot be executed, or exits with a code outside
\* 0..5, a missing exit code counting as -1; with an exit code in 0..5 it is
\* not invoked; per notification it is invoked at most once, as the last
\* attempt, after the helper was run whenever the helper was found.
C30_FallbackExactlyOnHelperFailure ==
    last # NoDispatch =>
        LET h == Unwrap(last).env.helper
            att == Unwrap(last).out.attempts
            lib == {i \in 1..Len(att) : att[i] = "library"}
            failed == \/ ~h.found
                      \/ ~h.exec
                      \/ h.code = None
                      \/ Unwrap(h.code) < 0
                      \/ Unwrap(h.code) > 5
        IN  IF platform = "windows"
            THEN /\ lib # {} <=> failed
                 /\ Cardinality(lib) <= 1
                 /\ \A i \in lib : i = Len(att)
                 /\ h.found => att[1] = "helper"
                 /\ {i \in 1..Len(att) : att[i] = "helper"} \subseteq {1}
                 /\ ~h.found => att = <<"library">>
                 /\ ~failed => /\ att = <<"helper">>
                               /\ Unwrap(last).out.library = None
                               /\ Unwrap(last).out.shown
                 /\ lib # {} <=> Unwrap(last).out.library # None
            ELSE lib = {} /\ Unwrap(last).out.library = None

\* C30 witness: the helper ran and exited with code 6; the library fallback
\* was then invoked, once.
C30_Witness ==
    /\ last # NoDispatch
    /\ platform = "windows"
    /\ Unwrap(last).env.helper = [found |-> TRUE, exec |-> TRUE, code |-> Some(6)]
    /\ Unwrap(last).out.attempts = <<"helper", "library">>

\* The icon cache as it was when the library fallback of the last call
\* asked for the icon: the call record keeps the age it found.
CacheBeforeFallback ==
    LET cs == Unwrap(last).out.calls
        c == cs[Len(cs)]
    IN  [c.cache EXCEPT ![c.url] = c.age]

\* The argument list ntfytoast.exe would be given for the data of the last
\* call, the icon resolved from the state and with the outcome the library
\* fallback met.
HelperWouldUse ==
    LET d == Unwrap(last)
        ic == IF IsSome(d.data.icon_url)
              THEN get_notification_icon_path(d.data.icon_url, CacheBeforeFallback,
                                              local_icons, d.env.icon2)
              ELSE get_notification_icon_path(d.data.icon_url, icon_cache,
                                              local_icons, d.env.icon2)
    IN  HelperArgs(d.data, ic.icon)

\* C31 (the claim as stated): whenever the library fallback builds the
\* notification, its fields equal what the helper would be given for the
\* same NotificationData: the same title with the urgent prefix exactly when
\* urgent, the same body, the same sound token (none exactly when the helper
\* is silenced), an infinite timeout exactly when the helper gets the
\* persistent flag, and the same icon path.
C31_LibraryMappingEquivalent ==
    last # NoDispatch /\ Unwrap(last).out.library # None =>
        LET lib == Unwrap(Unwrap(last).out.library)
            h == HelperWouldUse
        IN  /\ lib.summary = h.t
            /\ lib.summary.bell = Unwrap(last).data.urgent
            /\ lib.body = h.m
            /\ lib.sound_name = h.s
            /\ lib.sound_name = None <=> h.silent
            /\ lib.timeout = "Never" <=> h.persistent
            /\ lib.timeout \in {"Never", "Default"}
            /\ lib.icon = h.p

\* C31 witness: the library fallback showed an urgent, persistent
\* notification without icon URL; title, body, sound, timeout and the local
\* icon all agree with the helper's mapping.
C31_Witness ==
    /\ last # NoDispatch
    /\ Unwrap(last).out.library # None
    /\ Unwrap(last).data.urgent
    /\ Unwrap(last).data.icon_url = None
    /\ Unwrap(Unwrap(last).out.library).timeout = "Never"
    /\ Unwrap(Unwrap(last).out.library).sound_name = Some("Notification.IM")
    /\ Unwrap(Unwrap(last).out.library).icon = HelperWouldUse.p
    /\ HelperWouldUse.p # None

\* C32 (the claim as stated): a request that finds the cache file but
\* cannot read its metadata or its modification time does not return the
\* cached path without a download: it downloads the icon again, as a request
\* finding a file of 7 days or more does.
C32_RedownloadOnReadFailure ==
    \A i \in 1..Len(LastCalls) :
        LET c == LastCalls[i]
        IN  /\ c.age # NoFile /\ c.o.fs \in {"no_meta", "no_mtime"} =>
                  /\ c.downloads = 1
                  /\ c.path # None => c.wrote
            /\ c.age # NoFile /\ c.age >= ICON_TTL_SECS /\ c.o.fs = "ok"
                  /\ c.o.net # "client_fail" => c.downloads = 1

\* C32 witness: a request found a cache file older than the TTL with
\* readable metadata, downloaded the icon again and rewrote the file.
C32_Witness ==
    /\ Len(LastCalls) = 1
    /\ LastCalls[1].age = ICON_TTL_SECS + 1
    /\ LastCalls[1].o = [fs |-> "ok", net |-> "ok"]
    /\ LastCalls[1].downloads = 1
    /\ LastCalls[1].wrote
    /\ LastCalls[1].cache[LastCalls[1].url] = 0

\* C33 (the claim as stated): while a poll that follows an earlier one is
\* in flight, its since window is at least as long as the time known to
\* have passed since the response of the previous poll was taken, whatever
\* the dispatches took and whatever configuration was saved meanwhile: no
\* instant between two polls lies outside the later poll's window.
C33_NoGapBetweenWindows ==
    \A l \in Loops :
        pc[l] = "in_flight" /\ sent[l] # None =>
            Unwrap(req[l]).since >= waited[l]

\* C33 witness: the second poll is in flight after a sleep of the shortest
\* interval and its window of 5 s reaches back to the previous response.
C33_Witness ==
    /\ pc[1] = "in_flight"
    /\ sent[1] # None
    /\ waited[1] = MIN_POLL_RATE
    /\ Unwrap(req[1]).since = MIN_POLL_RATE

\* C34: a message whose notification could not be shown keeps its id in
\* seen_ids and its place in the count: every id dispatched since the last
\* clear, shown or not, is in seen_ids and was dispatched once only, a
\* recurrence is skipped, and the badge-update payload counts the failed
\* dispatches like the others.
C34_FailedDispatchStillSeen ==
    \A l \in Loops :
        LET ev == cycle_events[l]
            disp == EventsOf(l, "dispatch")
        IN  /\ \A i \in disp : Unwrap(ev[i].msg.id) \in seen_ids[l]
            /\ \A k \in 1..Len(epoch_log[l]) : epoch_log[l][k] \in seen_ids[l]
            /\ \A i, j \in disp : ev[i].msg.id = ev[j].msg.id => i = j
            /\ \A i \in disp : \A j \in 1..Len(ev) :
                  j > i /\ ev[j].msg # NoMessage /\ ev[j].msg.id = ev[i].msg.id =>
                     ev[j].type \in {"skip", "new-notification"}
            /\ pc[l] = "process" => new_count[l] = Cardinality(disp)
            /\ \A b \in EventsOf(l, "badge-update") :
                  ev[b].count = Cardinality(disp)

\* C34 witness: the notification of a message was not shown, the same id
\* came again in the batch and was skipped, and badge-update carried 1.
C34_Witness ==
    /\ pc[1] = "release"
    /\ Len(cycle_events[1]) = 4
    /\ cycle_events[1][1].type = "dispatch" /\ ~cycle_events[1][1].shown
    /\ cycle_events[1][3].type = "skip"
    /\ cycle_events[1][3].msg.id = cycle_events[1][1].msg.id
    /\ cycle_events[1][4].type = "badge-update"
    /\ cycle_events[1][4].count = 1
    /\ Unwrap(cycle_events[1][1].msg.id) \in seen_ids[1]

\* The configuration versions a snapshot can be a copy of.
VersionsOf(sn) == {c \in ConfigPool : Snapshot(c) = sn}

\* What the cycle of loop l has used so far agrees with version c: the
\* snapshot, the request, and the NotificationData of every dispatch.
CycleUses(l, c) ==
    /\ snap[l] = Some(Snapshot(c))
    /\ req[l] # None =>
          /\ Unwrap(req[l]).base = api_base_url(c)
          /\ Unwrap(req[l]).path = topics_path(c)
          /\ Unwrap(req[l]).since = effective_poll_rate(c)
          /\ Unwrap(req[l]).auth = ExpectedAuth(c)
    /\ \A i \in EventsOf(l, "dispatch") :
          cycle_events[l][i].data =
             [title |-> NotificationTitle(cycle_events[l][i].msg),
              message |-> FormattedMessage(cycle_events[l][i].msg),
              topic |-> UnwrapOr(cycle_events[l][i].msg.topic, "ntfy"),
              urgent |-> UnwrapOr(cycle_events[l][i].msg.priority, 3)
                            >= c.urgent_priority_threshold,
              sound |-> notification_sound_for(c,
                           UnwrapOr(cycle_events[l][i].msg.priority, 3)
                              >= c.urgent_priority_threshold),
              persistent |-> should_persist_notification(c,
                                UnwrapOr(cycle_events[l][i].msg.priority, 3)
                                   >= c.urgent_priority_threshold),
              icon_url |-> cycle_events[l][i].msg.icon]

\* C35: from the snapshot to the release, everything a cycle polls with and
\* derives notifications with comes from one configuration version, the one
\* behind the lock when the snapshot was copied, whatever save_config stores
\* meanwhile; the snapshot does not change during the cycle, and the
\* configuration a save stored during the cycle reaches the sleep interval
\* only.
C35_OneVersionPerCycle ==
    /\ [](\A l \in Loops :
             snap[l] # None =>
                \E c \in VersionsOf(Unwrap(snap[l])) : CycleUses(l, c))
    /\ [][\A l \in Loops :
             /\ (pc[l] = "cfg_read" /\ pc'[l] # "cfg_read") =>
                   snap'[l] = Some(Snapshot(config))
             /\ (pc[l] # "cfg_read" /\ snap'[l] # None) => snap'[l] = snap[l]
             /\ (pc[l] = "rate_read" /\ pc'[l] = "sleep") =>
                   sleep_dur'[l] = effective_poll_rate(config)]_vars

\* C35 witness: a save replaced the configuration while the batch was
\* being processed; the second notification of the batch was derived like
\* the first, with the sound of the snapshot and not the one now saved.
C35_Witness ==
    /\ pc[1] = "release"
    /\ snap[1] # None
    /\ config \notin VersionsOf(Unwrap(snap[1]))
    /\ Cardinality(EventsOf(1, "dispatch")) = 2
    /\ \A i \in EventsOf(1, "dispatch") :
          /\ cycle_events[1][i].data.sound = Unwrap(snap[1]).notification_sound
          /\ cycle_events[1][i].data.sound # config.notification_sound
          /\ ~cycle_events[1][i].data.urgent

\* What a failed poll changes: the step that takes the failed result goes
\* to the release without touching seen_ids, the dispatch record or the
\* icon cache, and the release that follows changes seen_ids only through
\* the hourly cleanup.
FailedPollStep(l) ==
    /\ (pc[l] = "in_flight" /\ pc'[l] # "in_flight" /\ poll_result'[l] \in PollErrors) =>
          /\ pc'[l] = "release"
          /\ seen_ids'[l] = seen_ids[l]
          /\ epoch_log'[l] = epoch_log[l]
          /\ icon_cache' = icon_cache
          /\ msgs'[l] = << >>
    /\ (pc[l] = "release" /\ pc'[l] # "release" /\ poll_result[l] \in PollErrors) =>
          \/ seen_ids'[l] = seen_ids[l]
          \/ CleanupDue(elapsed[l]) /\ seen_ids'[l] = {}

\* C36: a cycle whose poll failed has, up to its release, neither a
\* dispatch nor a new-notification nor a badge-update event, counted no new
\* message, and left seen_ids as the poll found it.
C36_FailedPollNoEffects ==
    /\ [](\A l \in Loops :
             pc[l] = "release" /\ poll_result[l] \in PollErrors =>
                /\ cycle_events[l] = << >>
                /\ new_count[l] = 0
                /\ batch[l] = << >>)
    /\ [][\A l \in Loops : FailedPollStep(l)]_vars

\* C36 witness: after a cycle had delivered a message, the next poll was
\* answered 401; the cycle is at its release with no event and the
\* delivered id still in seen_ids.
C36_Witness ==
    /\ pc[1] = "release"
    /\ poll_result[1] = "Unauthorized"
    /\ seen_ids[1] # {}
    /\ cycle_events[1] = << >>
    /\ new_count[1] = 0

\* C37 (the claim as stated): api_base_url applied to its own result
\* changes nothing, and the result ends neither with "/" nor with "/app",
\* for every instance URL, repeated slashes and repeated /app segments
\* included.
C37_BaseUrlIdempotent ==
    CallOf("api_base_url") =>
        LET c == Unwrap(call)
        IN  /\ c.twice = c.base_url
            /\ ~EndsWith(c.base_url, <<"/">>)
            /\ ~EndsWith(c.base_url, <<"/", "a", "p", "p">>)

\* C37 witness: http://h/app/app gave http://h, which api_base_url leaves
\* as it is.
C37_Witness ==
    /\ CallOf("api_base_url")
    /\ Unwrap(call).arg.host = <<"h", "t", "t", "p", ":", "/", "/", "h">>
    /\ Unwrap(call).arg.suffix = <<"/", "a", "p", "p", "/", "a", "p", "p">>
    /\ Unwrap(call).base_url = Unwrap(call).arg.host
    /\ Unwrap(call).twice = Unwrap(call).base_url

\* C38: whatever the persistence mode, the two sounds, the threshold and the
\* priority of the message, the persistence flag and the sound that
\* start_polling computes inline are the values of
\* should_persist_notification(urgent) and notification_sound_for(urgent)
\* of the configuration the snapshot was copied from.
C38_InlinePolicyMatchesMethods ==
    CallOf("derive") =>
        LET c == Unwrap(call)
        IN  /\ c.data.persistent = c.method_persist
            /\ c.data.sound = c.method_sound
            /\ c.data.urgent =
                  (UnwrapOr(c.arg.msg.priority, 3) >= c.arg.threshold)

\* C38 witness: mode UrgentOnly, sounds Chime and Bell, threshold 4; a
\* message without priority is not urgent: not persistent, Chime, inline and
\* by the methods alike.
C38_Witness ==
    /\ CallOf("derive")
    /\ Unwrap(call).arg.mode = "UrgentOnly"
    /\ Unwrap(call).arg.regular = "Chime"
    /\ Unwrap(call).arg.urgent_sound = "Bell"
    /\ Unwrap(call).arg.threshold = 4
    /\ Unwrap(call).arg.msg.priority = None
    /\ Unwrap(call).data.persistent = FALSE
    /\ Unwrap(call).method_persist = FALSE
    /\ Unwrap(call).data.sound = "Chime"
    /\ Unwrap(call).method_sound = "Chime"

\* The download attempts of the last show_notification_full call.
RECURSIVE DownloadsIn(_)
DownloadsIn(calls) ==
    IF calls = << >> THEN 0
    ELSE Head(calls).downloads + DownloadsIn(Tail(calls))

\* C39 (the claim as stated): one show_notification_full call makes at most
\* one download attempt for the icon URL of its notification, also when the
\* helper path resolved the icon first and the library fallback is used
\* after the helper failed.
C39_OneDownloadPerDispatch ==
    DownloadsIn(LastCalls) <= 1

\* C39 witness: there was no cache file; the helper path downloaded the
\* icon, the helper failed, and the library fallback took the icon from
\* the cache: two requests, one download.
C39_Witness ==
    /\ last # NoDispatch
    /\ Unwrap(last).out.attempts = <<"helper", "library">>
    /\ Len(LastCalls) = 2
    /\ LastCalls[1].age = NoFile
    /\ LastCalls[1].downloads = 1
    /\ LastCalls[2].downloads = 0
    /\ DownloadsIn(LastCalls) = 1

\* The save_config command in progress, if any.
Saving == call # None /\ Unwrap(call).fn = "save_config"

\* C40: save_config replaces the shared configuration only after the
\* credential store and the file write both succeeded.  Until then, and for
\* good when either step failed, the shared configuration is the one the
\* command found and every snapshot the poll loop takes is a copy of it;
\* once the command has stored, the shared configuration is its argument,
\* credentials included.
C40_SharedReplacedAfterBothSaved ==
    /\ [](Saving =>
             LET f == Unwrap(call)
             IN  /\ f.at \in {"keychain", "file", "lock", "store", "failed"} =>
                       config = f.before
                 /\ ~(f.keychain /\ f.file) =>
                       config = f.before /\ save_pending = None
                 /\ f.at = "failed" => ~(f.keychain /\ f.file)
                 /\ f.at \in {"lock", "store", "stored"} => f.keychain /\ f.file
                 /\ f.at = "stored" =>
                       /\ config = f.arg
                       /\ config.api_token = f.arg.api_token
                       /\ config.auth_user = f.arg.auth_user
                       /\ config.auth_pass = f.arg.auth_pass
                 /\ save_pending # None => f.at = "store")
    /\ [][/\ config' # config =>
                /\ Saving /\ Unwrap(call).at = "store"
                /\ Unwrap(call).keychain /\ Unwrap(call).file
                /\ config' = Unwrap(call).arg
          /\ (Saving /\ Unwrap(call).at \in {"keychain", "file", "failed"}
                 /\ snap'[1] # snap[1] /\ snap'[1] # None) =>
                snap'[1] = Some(Snapshot(Unwrap(call).before))]_vars

\* C40 witness: the keychain took the credentials but the file write
\* failed; the command is about to return its error, the shared
\* configuration is still the previous one with its own credentials, and
\* the poll loop has just taken its snapshot of it.
C40_Witness ==
    /\ Saving
    /\ Unwrap(call).at = "failed"
    /\ Unwrap(call).keychain /\ ~Unwrap(call).file
    /\ Unwrap(call).arg.api_token = "tok"
    /\ config.api_token = ""
    /\ config = Unwrap(call).before
    /\ pc[1] = "update_client"
    /\ snap[1] = Some(Snapshot(config))
====
